---- MODULE Spec2Model ----
(***************************************************************************)
(* TDS_PROJECT_1: the HTTP front door (main.py), the per-task pipeline     *)
(* (worker.py), the two generation providers (llm/aipipe.py,               *)
(* llm/huggingface.py), the retry wrappers (utils/retry.py) and the        *)
(* repository manager (github/manager.py) as one state machine.            *)
(*                                                                         *)
(* A task is identified with the request that carries it.  One event loop  *)
(* runs every coroutine: a task that is inside a blocking (synchronous)    *)
(* call of the repository manager holds the loop, and no other coroutine   *)
(* and no timer callback runs until it reaches its next await.             *)
(***************************************************************************)
EXTENDS Integers, Sequences, FiniteSets, TLC

\* ---------------------------------------------------------------- bounds
NumTasks == 2
MaxSecretLen == 2
MaxLines == 3
MaxCalls == 2
MaxWrapperAttempts == 3
MaxBackoffAttempt == 2
MaxBase == 2
MaxFactor == 2
MaxDelay == 3
MaxUriLen == 5
MaxChecks == 2
MaxIdWords == 2
MaxAttachments == 2

\* ------------------------------------------------------ program constants
max_retries == 5
AIPipeMaxModels == 3
AIPipeMaxAttempts == 2
HFMaxAttempts == 2
CreateMaxAttempts == 3
CommitMaxAttempts == 3
\* Doubles are below 2 ^ FloatMaxExp (sys.float_info.max_exp).
FloatMaxExp == 1024
max_repo_name_length == 100

Tasks == 1..NumTasks
\* The rounds of the requests: a first round and a later one.
Rounds == {1, 2}

\* ------------------------------------------------------------- secrets
\* A secret is a sequence of characters.  NonAscii stands for any character
\* outside ASCII (U+00E9, say).
NonAscii == "U+00E9"
AsciiChars == {"a", "b"}
Chars == AsciiChars \cup {NonAscii}
Strings(n) == UNION {[1..k -> Chars] : k \in 0..n}
service_secret == <<"a", "b">>

\* hmac.compare_digest on two str: TypeError unless both are ASCII only,
\* otherwise equality of length and of every character.
compare_digest(a, b) ==
    IF \E i \in 1..Len(a) : a[i] \notin AsciiChars THEN "TypeError"
    ELSE IF \E i \in 1..Len(b) : b[i] \notin AsciiChars THEN "TypeError"
    ELSE IF Len(a) = Len(b) /\ \A i \in 1..Len(a) : a[i] = b[i] THEN "True"
    ELSE "False"

validate_secret(provided_secret) == compare_digest(provided_secret, service_secret)

\* ------------------------------------------------- generated file sets
IndexName == "index.html"
ReadmeName == "README.md"
LicenseName == "LICENSE"
MandatoryFiles == {IndexName, ReadmeName, LicenseName}
ExtraFile == "script.js"
FileNames == MandatoryFiles \cup {ExtraFile}
\* The lines of a remote text: a marker line "=== name ===" is written as the
\* file name, "code" is any other line, Fence is a line of three backquotes.
Fence == "fence"
Lines == FileNames \cup {"code", Fence}
IsMarker(l) == l \in FileNames
Texts(n) == UNION {[1..k -> Lines] : k \in 1..n}

\* A file of a response: what produced it and its lines.
RemoteFile(body) == [src |-> "remote", body |-> body]
LocalFile(kind) == [src |-> "local", body |-> <<kind>>]
NoFile == [src |-> "none", body |-> <<>>]

\* The end of the body that starts at line i: the regular expression
\* ===\s*([^\s=]+)\s*===\s*\n(.*?)(?=\n===|$) takes lines lazily, the first
\* body line whatever it is, up to the line before the next line that starts
\* with === or to the end of the text.
RECURSIVE BodyEnd(_, _)
BodyEnd(text, j) ==
    IF j >= Len(text) THEN Len(text)
    ELSE IF IsMarker(text[j + 1]) THEN j
    ELSE BodyEnd(text, j + 1)

\* The two re.sub calls of the primary provider: a leading fence line with
\* a line after it is dropped, then a trailing fence line with a line before it.
StripFences(body) ==
    LET b1 == IF Len(body) >= 2 /\ body[1] = Fence THEN Tail(body) ELSE body
    IN IF Len(b1) >= 2 /\ b1[Len(b1)] = Fence THEN SubSeq(b1, 1, Len(b1) - 1) ELSE b1

\* re.findall over the text from line i on, files[filename] = body for each
\* match in order (a later block of the same name overwrites an earlier one).
\* A marker on the last line has no "\n" after it and does not match.
RECURSIVE ParseFrom(_, _, _, _)
ParseFrom(text, i, files, strip) ==
    IF i > Len(text) THEN files
    ELSE IF IsMarker(text[i]) /\ i < Len(text)
    THEN LET j == BodyEnd(text, i + 1)
             raw == SubSeq(text, i + 1, j)
             body == IF strip THEN StripFences(raw) ELSE raw
             name == text[i]
             upd == [n \in DOMAIN files \cup {name} |->
                        IF n = name THEN body ELSE files[n]]
         IN ParseFrom(text, j + 1, upd, strip)
    ELSE ParseFrom(text, i + 1, files, strip)

EmptyFiles == [n \in {} |-> <<>>]
aipipe_parse_files_from_response(content) == ParseFrom(content, 1, EmptyFiles, TRUE)
hf_parse_files_from_response(content) == ParseFrom(content, 1, EmptyFiles, FALSE)

\* A variant of EnsureFile without the local synthesis.
EnsureFile_no_fallback(files, name, kind) ==
    IF name \in DOMAIN files THEN RemoteFile(files[name]) ELSE NoFile

\* "Ensure required files": a mandatory file the parse did not produce is
\* synthesized locally (fallback markup, fallback readme, MIT license text).
EnsureFile(files, name, kind) ==
    IF name \in DOMAIN files THEN RemoteFile(files[name]) ELSE LocalFile(kind)

NoResponse ==
    [index_html |-> NoFile, readme_md |-> NoFile, license_text |-> NoFile,
     additional_files |-> EmptyFiles, model_used |-> "none"]

\* LLMGenerationResponse built by AIPipeLLMAdapter._generate_with_model
aipipe_model_response(content, model_name) ==
    LET files == aipipe_parse_files_from_response(content)
    IN [index_html |-> EnsureFile(files, IndexName, "aipipe_fallback_html"),
        readme_md |-> EnsureFile(files, ReadmeName, "aipipe_fallback_readme"),
        license_text |-> EnsureFile(files, LicenseName, "mit_license"),
        additional_files |-> [n \in DOMAIN files \ MandatoryFiles |-> files[n]],
        model_used |-> model_name]

\* AIPipeLLMAdapter._generate_fallback_response
aipipe_generate_fallback_response ==
    [index_html |-> LocalFile("aipipe_fallback_html"),
     readme_md |-> LocalFile("aipipe_fallback_readme"),
     license_text |-> LocalFile("mit_license"),
     additional_files |-> EmptyFiles, model_used |-> "fallback"]

\* LLMGenerationResponse built by HuggingFaceLLMAdapter.generate_application
hf_model_response(content, model_name) ==
    LET files == hf_parse_files_from_response(content)
    IN [index_html |-> EnsureFile(files, IndexName, "hf_fallback_html"),
        readme_md |-> EnsureFile(files, ReadmeName, "hf_fallback_readme"),
        license_text |-> EnsureFile(files, LicenseName, "mit_license"),
        additional_files |-> EmptyFiles,
        model_used |-> model_name]

\* models_to_try[:3]: the configured model, then the known models other than
\* it, in their order.
aipipe_model == "gpt-4"
hf_inference_model == "meta-llama/Llama-3.2-3B-Instruct"
AVAILABLE_MODELS ==
    <<"openai/gpt-4-turbo", "openai/gpt-4o-mini", "anthropic/claude-3-5-sonnet",
      "google/gemini-pro-1.5", "meta-llama/llama-3.1-70b-instruct">>
models_to_try ==
    LET all == <<aipipe_model>> \o SelectSeq(AVAILABLE_MODELS, LAMBDA m : m # aipipe_model)
    IN SubSeq(all, 1, IF Len(all) < AIPipeMaxModels THEN Len(all) ELSE AIPipeMaxModels)

\* ----------------------------------------------------------- retry wrapper
\* A variant of retry_decision whose loop makes one attempt more.
retry_decision_one_more(attempt, max_attempts, retryable) ==
    IF ~retryable THEN "raise"
    ELSE IF attempt = max_attempts THEN "raise"
    ELSE "sleep"

\* A variant of retry_decision that catches every exception.
retry_decision_catches_all(attempt, max_attempts, retryable) ==
    IF attempt = max_attempts - 1 THEN "raise" ELSE "sleep"

\* retry_async / retry_sync, on a failure of attempt `attempt` (0-indexed): a
\* failure outside the retryable kinds propagates at once, the last attempt's
\* failure propagates, any other is followed by a backoff sleep and a retry.
retry_decision(attempt, max_attempts, retryable) ==
    IF ~retryable THEN "raise"
    ELSE IF attempt = max_attempts - 1 THEN "raise"
    ELSE "sleep"

\* ------------------------------------------------------------------ state
VARIABLES
    request,        \* the TaskRequest of each task (NoRequest before it arrives)
    resp,           \* the status of the HTTP response to it (0: none yet)
    body,           \* the JSON content of that response
    background,     \* how many times process_task was added as a background task
    pc,             \* where the task's coroutine stands
    deadline,       \* "pending", or where the task stood when its timeout elapsed
    visited,        \* the pipeline states the task has passed, in order
    llm,            \* the provider call in progress
    llm_response,   \* the LLMGenerationResponse in hand
    remote_text,    \* the remote text it was built from (<<>>: none)
    calls,          \* the generate_application calls of step 3, in order
    existing_code,  \* the prior round's markup ("None" when not fetched)
    gh_attempt,     \* the attempt number inside the retry_sync wrapper
    gh_calls,       \* the repository-manager operations the task has invoked,
                    \* and the exception of one that raised to the task
    result,         \* the EvaluationResult being composed
    cb_attempt,     \* the loop variable of post_to_evaluation_url
    posts,          \* the number of callback POSTs made
    sleeps,         \* the delays of the callback's backoff sleeps, in order
    tree,           \* the branch of the task's repository, file by file
    head,           \* the number of commits on that branch since the task met it
    cursor,         \* the position of commit_files in its loop over the files
    last_commit_sha,\* the local variable of commit_files
    written,        \* the files the current commit_files call has committed
    writes,         \* the branch as the current commit_files call met it, and the
                    \* remote writes the call has made, in order
    wrapper,        \* one run of a retry wrapper on its own
    backoff,        \* one call of exponential_backoff on its own
    attachment,     \* one call of _parse_data_uri on its own
    markup,         \* one call of _generate_fallback_html on its own
    manager,        \* one call of a GitHubManager operation on its own
    prepared,       \* one run of step 5 (the files to commit) on its own
    shared          \* the tasks of requests with one task identifier, and the
                    \* repository of that name

vars == <<request, resp, body, background, pc, deadline, visited, llm,
          llm_response, remote_text, calls, existing_code, gh_attempt, gh_calls, result,
          cb_attempt, posts, sleeps, tree, head, cursor, last_commit_sha, written,
          writes, wrapper, backoff, attachment, markup, manager, prepared,
          shared>>

NoRequest == [secret |-> <<>>, round |-> 0, email |-> <<>>, task |-> <<>>, nonce |-> <<>>]
\* The task identifier of request t, a string of the client's choice given by
\* its characters: "t-1", "t 2", "t-3", ... (a space in the even ones).
TaskId(t) == <<"t", IF t % 2 = 0 THEN " " ELSE "-", ToString(t)>>
\* The request that carries task t: its email, task identifier and nonce are
\* its own.
TaskRequest(t, secret, rnd) ==
    [secret |-> secret, round |-> rnd, email |-> <<"email", t>>,
     task |-> TaskId(t), nonce |-> <<"nonce", t>>]
NoCall == [provider |-> "none", model |-> 0, attempt |-> 0, error |-> "none"]
\* A commit hash is a string: the empty one, or the hash of the n-th commit
\* made on the branch.
EmptySha == <<>>
Sha(n) == <<"sha", n>>
Unset == <<"unset">>
NoResult == [email |-> Unset, task |-> Unset, round |-> 0, nonce |-> Unset,
             repo_url |-> Unset, commit_sha |-> Unset, pages_url |-> Unset]
\* repo.html_url and the predicted pages URL of the repository named name.
html_url(name) == <<"github.com", name>>
pages_url_of(name) == <<"github.io", name>>

\* The files commit_files loops over, in the order of the dict of step 5.
CommitOrder == <<IndexName, ReadmeName, LicenseName>>
\* A file of the branch, against the content the task is about to commit:
\* the same content, another content, or no such file.
FileStates == {"same", "differs", "absent"}
Trees == [MandatoryFiles -> FileStates]
NoTree == [f \in MandatoryFiles |-> "unknown"]
\* A repository just created with auto_init (a README of GitHub's making),
\* and one that already holds exactly the task's files.
FreshTree == [f \in MandatoryFiles |-> IF f = ReadmeName THEN "differs" ELSE "absent"]
UnchangedTree == [f \in MandatoryFiles |-> "same"]
\* The write commit_files makes for a path it does not skip: update_file
\* when get_contents found the path, create_file when it answered 404.
remote_write(state, path) == <<IF state = "absent" THEN "create_file" ELSE "update_file", path>>

\* No retry wrapper run, no backoff computation.
NoWrapper == [max_attempts |-> 0, sync |-> FALSE, attempt |-> 0, invocations |-> 0,
              sleeps |-> 0, failures |-> <<>>, status |-> "none", raised |-> "none"]
NoBackoff == [attempt |-> 0, base |-> 0, factor |-> 1, max_delay |-> 0,
              jitter |-> FALSE, status |-> "none", delay4 |-> 0]

\* No call of _parse_data_uri, no call of _generate_fallback_html.
NoAttachment == [url |-> [type |-> "NoneType", text |-> <<>>], status |-> "none",
                 content |-> <<>>]
NoMarkup == [adapter |-> "none", checks |-> <<>>, status |-> "none", elements |-> <<>>]
\* No tasks on one repository: no commit, nothing posted.
NoSent == [commit_sha |-> Unset, tip |-> Unset, page_of |-> 0]
NoShared == [head |-> 0, page_of |-> 0,
             task |-> [t \in Tasks |-> [pc |-> "none", attempt |-> 0,
                                        commit_sha |-> Unset, sent |-> NoSent]]]
\* No run of step 5.
NoPrepared == [index_html |-> "", additional_files |-> <<>>, parsed_attachments |-> <<>>,
               status |-> "none", files |-> <<>>]
\* No GitHubRepoInfo, no call of a GitHubManager operation.
NoInfo == [repo_name |-> Unset, repo_url |-> Unset, pages_url |-> Unset, created |-> FALSE]
NoManager == [op |-> "none", repo_name |-> Unset, status |-> "none", attempt |-> 0,
              existed |-> FALSE, exists |-> FALSE, has_index |-> FALSE,
              not_found |-> FALSE, created_here |-> FALSE,
              attempted |-> {}, attached |-> {}, info |-> NoInfo, value |-> Unset,
              raised |-> "none"]

\* Blocking calls: PyGithub requests and time.sleep inside retry_sync.
SyncStages == {"prior_fetch", "create_or_get", "commit_files", "enable_pages"}
\* Awaits inside asyncio.wait_for, where its timeout can cancel the coroutine.
AwaitStages == {"aipipe_post", "aipipe_sleep", "hf_post", "aclose", "llm_raised"}
CallbackStages == {"cb_post", "cb_sleep"}
Terminal == {"reported", "unreported", "failed", "timed_out"}

\* The 570 s of wait_for, counted from the start of process_task, are over.
Elapsed(t) == deadline[t] # "pending"

\* The event loop is free for task t: no other task is inside a blocking call.
LoopFree(t) == \A u \in Tasks \ {t} : pc[u] \notin SyncStages

\* The JSON contents of the responses: none yet, the TaskResponse of an
\* accepted request, and the content FastAPI sends for an HTTPException.
NoBody == [none |-> "none"]
TaskResponse == [status |-> "accepted", message |-> "Request received, processing"]
HTTPException(detail) == [detail |-> detail]

\* str(exc) of an exception raised under the endpoint.
str(exc) ==
    IF exc = "TypeError"
    THEN "comparing strings with non-ASCII characters is not supported"
    ELSE exc

\* The handler registered for Exception: status 500 and its content.
global_exception_handler(exc) ==
    [status_code |-> 500,
     content |-> [detail |-> "Internal server error", error |-> str(exc)]]

\* No request has arrived.
NoTasks ==
    /\ request = [t \in Tasks |-> NoRequest]
    /\ resp = [t \in Tasks |-> 0]
    /\ body = [t \in Tasks |-> NoBody]
    /\ background = [t \in Tasks |-> 0]
    /\ pc = [t \in Tasks |-> "idle"]
    /\ deadline = [t \in Tasks |-> "pending"]
    /\ visited = [t \in Tasks |-> <<>>]
    /\ llm = [t \in Tasks |-> NoCall]
    /\ llm_response = [t \in Tasks |-> NoResponse]
    /\ remote_text = [t \in Tasks |-> <<>>]
    /\ calls = [t \in Tasks |-> <<>>]
    /\ existing_code = [t \in Tasks |-> "None"]
    /\ gh_attempt = [t \in Tasks |-> 0]
    /\ gh_calls = [t \in Tasks |-> <<>>]
    /\ result = [t \in Tasks |-> NoResult]
    /\ cb_attempt = [t \in Tasks |-> 0]
    /\ posts = [t \in Tasks |-> 0]
    /\ sleeps = [t \in Tasks |-> <<>>]
    /\ tree = [t \in Tasks |-> NoTree]
    /\ head = [t \in Tasks |-> 0]
    /\ cursor = [t \in Tasks |-> 1]
    /\ last_commit_sha = [t \in Tasks |-> EmptySha]
    /\ written = [t \in Tasks |-> {}]
    /\ writes = [t \in Tasks |-> [before |-> tree[t], ops |-> <<>>]]

Idle ==
    /\ NoTasks
    /\ wrapper = NoWrapper
    /\ backoff = NoBackoff
    /\ attachment = NoAttachment
    /\ manager = NoManager
    /\ prepared = NoPrepared
    /\ shared = NoShared
    /\ markup = NoMarkup

Init == Idle

\* Groups of variables an action leaves alone.
front == <<request, resp, background, body>>
callback == <<cb_attempt, posts, sleeps>>
commit == <<tree, head, cursor, last_commit_sha, written, writes>>
repo == <<gh_attempt, gh_calls, result, commit>>
\* The library functions run on their own, outside any task.
library == <<wrapper, backoff, attachment, markup, manager, prepared, shared>>

\* ------------------------------------------------------------- front door
\* A variant of api_endpoint that awaits process_task(request) in the handler:
\* the response is not returned before the pipeline runs.
api_endpoint_awaits(t, secret, rnd) ==
    /\ pc[t] = "idle"
    /\ LoopFree(t)
    /\ request' = [request EXCEPT ![t] = TaskRequest(t, secret, rnd)]
    /\ IF validate_secret(secret) = "True"
       THEN /\ pc' = [pc EXCEPT ![t] = "queued"]
            /\ UNCHANGED <<resp, body, background>>
       ELSE /\ resp' = [resp EXCEPT ![t] = 401]
            /\ body' = [body EXCEPT ![t] = HTTPException("Invalid secret")]
            /\ pc' = [pc EXCEPT ![t] = "rejected"]
            /\ UNCHANGED background
    /\ UNCHANGED <<library, deadline, visited, llm, llm_response, remote_text, calls,
                   existing_code, repo, callback>>

\* POST /api-endpoint.  A TypeError of compare_digest is unhandled in the
\* handler and answered by global_exception_handler with status 500.  With a
\* valid secret the handler adds process_task to the background tasks and
\* returns its response; the background task runs after the response.
api_endpoint(t, secret, rnd) ==
    /\ pc[t] = "idle"
    /\ LoopFree(t)
    /\ request' = [request EXCEPT ![t] = TaskRequest(t, secret, rnd)]
    /\ LET v == validate_secret(secret)
       IN CASE v = "True" ->
                  /\ background' = [background EXCEPT ![t] = @ + 1]
                  /\ resp' = [resp EXCEPT ![t] = 200]
                  /\ body' = [body EXCEPT ![t] = TaskResponse]
                  /\ pc' = [pc EXCEPT ![t] = "queued"]
            [] v = "False" ->
                  /\ resp' = [resp EXCEPT ![t] = 401]
                  /\ body' = [body EXCEPT ![t] = HTTPException("Invalid secret")]
                  /\ pc' = [pc EXCEPT ![t] = "rejected"]
                  /\ UNCHANGED background
            [] OTHER ->
                  /\ resp' = [resp EXCEPT ![t] = global_exception_handler(v).status_code]
                  /\ body' = [body EXCEPT ![t] = global_exception_handler(v).content]
                  /\ pc' = [pc EXCEPT ![t] = "rejected"]
                  /\ UNCHANGED background
    /\ UNCHANGED <<library, deadline, visited, llm, llm_response, remote_text, calls,
                   existing_code, repo, callback>>

\* ------------------------------------------------------- the wait_for timer
\* The timeout of asyncio.wait_for elapses (wall-clock time; it needs no turn
\* of the event loop).
deadline_elapses(t) ==
    /\ pc[t] \in SyncStages \cup AwaitStages \cup CallbackStages
    /\ ~Elapsed(t)
    /\ deadline' = [deadline EXCEPT ![t] =
           IF pc[t] \in CallbackStages THEN "in_callback" ELSE "in_pipeline"]
    /\ UNCHANGED <<library, front, pc, visited, llm, llm_response, remote_text, calls,
                   existing_code, repo, callback>>

\* The last call of the task, with its outcome set.
CallEnds(t, outcome) ==
    [calls EXCEPT ![t][Len(calls[t])].outcome = outcome]

\* The timer callback runs on the event loop and cancels the inner coroutine,
\* which is suspended at an await: wait_for raises TimeoutError and
\* process_task logs it.
timeout_fires(t) ==
    /\ pc[t] \in AwaitStages
    /\ Elapsed(t)
    /\ LoopFree(t)
    /\ pc' = [pc EXCEPT ![t] = "timed_out"]
    /\ llm' = [llm EXCEPT ![t] = NoCall]
    /\ llm_response' = [llm_response EXCEPT ![t] = NoResponse]
    /\ remote_text' = [remote_text EXCEPT ![t] = <<>>]
    /\ calls' = IF calls[t][Len(calls[t])].outcome = "pending"
                THEN CallEnds(t, "cancelled") ELSE calls
    /\ UNCHANGED <<library, front, deadline, visited, existing_code, repo, callback>>

\* ------------------------------------------------------------ orchestrator
\* A variant of the handler below that logs the failure and raises it again.
process_task_except_reraises(t) ==
    /\ pc' = [pc EXCEPT ![t] = "raised"]
    /\ UNCHANGED callback

\* A variant of the handler below that reports the failed task to the
\* callback URL.
process_task_except_reports(t) ==
    /\ pc' = [pc EXCEPT ![t] = "cb_post"]
    /\ posts' = [posts EXCEPT ![t] = @ + 1]
    /\ UNCHANGED <<cb_attempt, sleeps>>

\* process_task's "except Exception": the failure is logged, nothing is posted.
process_task_except(t) ==
    /\ pc' = [pc EXCEPT ![t] = "failed"]
    /\ UNCHANGED callback

\* A variant of invoke_provider whose llm_request leaves existing_code out.
invoke_provider_without_code(t, provider, code) ==
    /\ llm' = [llm EXCEPT ![t] = [provider |-> provider, model |-> 1,
                                  attempt |-> 0, error |-> "none"]]
    /\ calls' = [calls EXCEPT ![t] = Append(@,
                    [provider |-> provider, round |-> request[t].round,
                     existing_code |-> "None", failed |-> 0, outcome |-> "pending"])]
    /\ pc' = [pc EXCEPT ![t] = IF provider = "AIPipe" THEN "aipipe_post" ELSE "hf_post"]

\* The adapter is entered and generate_application(llm_request) runs up to its
\* first await, the POST to the remote endpoint.  llm_request carries the
\* round and the prior code.
invoke_provider(t, provider, code) ==
    /\ llm' = [llm EXCEPT ![t] = [provider |-> provider, model |-> 1,
                                  attempt |-> 0, error |-> "none"]]
    /\ calls' = [calls EXCEPT ![t] = Append(@,
                    [provider |-> provider, round |-> request[t].round,
                     existing_code |-> code, failed |-> 0, outcome |-> "pending"])]
    /\ pc' = [pc EXCEPT ![t] = IF provider = "AIPipe" THEN "aipipe_post" ELSE "hf_post"]

\* The background task starts: wait_for is armed, step 1 parses the
\* attachments; for round > 1 step 2 enters the blocking prior-markup fetch,
\* otherwise step 3 invokes the primary provider.
process_task(t) ==
    /\ pc[t] = "queued"
    /\ LoopFree(t)
    /\ visited' = [visited EXCEPT ![t] = <<"RECEIVED", "ATTACHMENTS_PARSED">>]
    /\ IF request[t].round > 1
       THEN /\ pc' = [pc EXCEPT ![t] = "prior_fetch"]
            /\ UNCHANGED <<llm, calls>>
       ELSE invoke_provider(t, "AIPipe", existing_code[t])
    /\ UNCHANGED <<library, front, deadline, llm_response, remote_text, existing_code,
                   repo, callback>>

FetchOutcomes == {"content", "not_found", "error"}

\* What step 2 leaves in existing_code: the page, "" for a 404 on the path,
\* None for any other failure inside the try.
fetched_code(outcome) ==
    CASE outcome = "content" -> "<html>"
      [] outcome = "not_found" -> ""
      [] OTHER -> "None"

\* Step 2: GitHubManager() then get_file_content(task, "index.html"), then
\* step 3 invokes the primary provider.
fetch_existing_code(t, outcome) ==
    /\ pc[t] = "prior_fetch"
    /\ existing_code' = [existing_code EXCEPT ![t] = fetched_code(outcome)]
    /\ gh_calls' = [gh_calls EXCEPT ![t] = Append(@, "get_file_content")]
    /\ visited' = [visited EXCEPT ![t] = Append(@, "PRIOR_FETCHED")]
    /\ invoke_provider(t, "AIPipe", fetched_code(outcome))
    /\ UNCHANGED <<library, front, deadline, llm_response, remote_text, gh_attempt, result,
                   commit, callback>>

\* GitHubManager() itself fails (line 88 is outside the try): the task fails.
fetch_manager_fails(t) ==
    /\ pc[t] = "prior_fetch"
    /\ process_task_except(t)
    /\ UNCHANGED <<library, front, deadline, visited, llm, llm_response, remote_text, calls,
                   existing_code, repo>>

\* --------------------------------------------------------------- providers
\* generate_application returns `response`, built from the remote text `text`
\* (<<>> for a response built without one).
provider_returns(t, response, text) ==
    /\ llm_response' = [llm_response EXCEPT ![t] = response]
    /\ remote_text' = [remote_text EXCEPT ![t] = text]
    /\ llm' = [llm EXCEPT ![t] = NoCall]
    /\ calls' = CallEnds(t, "returned")
    /\ pc' = [pc EXCEPT ![t] = "aclose"]

\* generate_application raises e to its caller.
provider_raises(t, e) ==
    /\ llm' = [llm EXCEPT ![t].error = e]
    /\ calls' = [calls EXCEPT ![t][Len(calls[t])].outcome = "raised",
                              ![t][Len(calls[t])].failed = @ + 1]
    /\ pc' = [pc EXCEPT ![t] = "llm_raised"]
    /\ UNCHANGED <<llm_response, remote_text>>

\* ------------------------------------------------- primary provider (AIPipe)
AIPipeFailures == {"HTTPError", "TimeoutException", "JSONDecodeError", "Empty"}
AIPipeRetryable == {"HTTPError", "TimeoutException"}

\* A variant of the end of the loop that raises the last error (as a
\* provider without the fallback response would).
aipipe_all_models_failed_raises(t) == provider_raises(t, "LLMGenerationError")

\* After the loop over models_to_try[:3]: every model failed, and the locally
\* synthesized response is returned.
aipipe_all_models_failed(t) ==
    /\ llm_response' = [llm_response EXCEPT ![t] = aipipe_generate_fallback_response]
    /\ remote_text' = [remote_text EXCEPT ![t] = <<>>]
    /\ llm' = [llm EXCEPT ![t] = NoCall]
    /\ calls' = [calls EXCEPT ![t][Len(calls[t])].outcome = "returned",
                              ![t][Len(calls[t])].failed = @ + 1]
    /\ pc' = [pc EXCEPT ![t] = "aclose"]

\* The remote call returns a text: _generate_with_model parses it and returns.
aipipe_post_returns(t, content) ==
    /\ pc[t] = "aipipe_post"
    /\ ~Elapsed(t)
    /\ LoopFree(t)
    /\ provider_returns(t, aipipe_model_response(content, models_to_try[llm[t].model]),
                        content)
    /\ UNCHANGED <<library, front, deadline, visited, existing_code, repo, callback>>

\* The remote call fails: an HTTP error or a timeout is retried once by
\* retry_async; otherwise the failure leaves _generate_with_model and
\* generate_application ("except Exception: continue") goes on to the next
\* model, or to the fallback.
aipipe_post_fails(t, kind) ==
    /\ pc[t] = "aipipe_post"
    /\ ~Elapsed(t)
    /\ LoopFree(t)
    /\ LET d == retry_decision(llm[t].attempt, AIPipeMaxAttempts, kind \in AIPipeRetryable)
       IN IF d = "sleep"
          THEN /\ pc' = [pc EXCEPT ![t] = "aipipe_sleep"]
               /\ UNCHANGED <<llm, llm_response, remote_text, calls>>
          ELSE IF llm[t].model < Len(models_to_try)
          THEN /\ llm' = [llm EXCEPT ![t].model = @ + 1, ![t].attempt = 0]
               /\ calls' = [calls EXCEPT ![t][Len(calls[t])].failed = @ + 1]
               /\ UNCHANGED <<pc, llm_response, remote_text>>
          ELSE aipipe_all_models_failed(t)
    /\ UNCHANGED <<library, front, deadline, visited, existing_code, repo, callback>>

\* The backoff sleep of retry_async ends and the same model is called again.
aipipe_sleep_done(t) ==
    /\ pc[t] = "aipipe_sleep"
    /\ ~Elapsed(t)
    /\ LoopFree(t)
    /\ llm' = [llm EXCEPT ![t].attempt = @ + 1]
    /\ pc' = [pc EXCEPT ![t] = "aipipe_post"]
    /\ UNCHANGED <<library, front, deadline, visited, llm_response, remote_text, calls,
                   existing_code, repo, callback>>

\* -------------------------------------------- secondary provider (HuggingFace)
HFFailures == {"HTTPError", "JSONDecodeError", "Empty"}
HFRetryable == {"HTTPError"}

\* What leaves the body of generate_application for a failure inside it: both
\* except clauses (lines 106-114) raise an LLMGenerationError.
hf_raised(kind) == "LLMGenerationError"

\* The remote call returns a text: it is parsed and the response returned.
hf_post_returns(t, content) ==
    /\ pc[t] = "hf_post"
    /\ ~Elapsed(t)
    /\ LoopFree(t)
    /\ provider_returns(t, hf_model_response(content, hf_inference_model), content)
    /\ UNCHANGED <<library, front, deadline, visited, existing_code, repo, callback>>

\* A variant of hf_post_fails that answers a failed remote call with a locally
\* synthesized response.
hf_post_fails_falls_back(t, kind) ==
    /\ pc[t] = "hf_post"
    /\ ~Elapsed(t)
    /\ LoopFree(t)
    /\ provider_returns(t, [index_html |-> LocalFile("hf_fallback_html"),
                            readme_md |-> LocalFile("hf_fallback_readme"),
                            license_text |-> LocalFile("mit_license"),
                            additional_files |-> EmptyFiles,
                            model_used |-> "fallback"], <<>>)
    /\ UNCHANGED <<library, front, deadline, visited, existing_code, repo, callback>>

\* The remote call fails: the body raises LLMGenerationError, which
\* retry_async(exceptions=(httpx.HTTPError,)) does not retry.
hf_post_fails(t, kind) ==
    /\ pc[t] = "hf_post"
    /\ ~Elapsed(t)
    /\ LoopFree(t)
    /\ LET e == hf_raised(kind)
           d == retry_decision(llm[t].attempt, HFMaxAttempts, e \in HFRetryable)
       IN IF d = "sleep"
          THEN /\ llm' = [llm EXCEPT ![t].attempt = @ + 1]
               /\ UNCHANGED <<pc, calls, llm_response, remote_text>>
          ELSE provider_raises(t, e)
    /\ UNCHANGED <<library, front, deadline, visited, existing_code, repo, callback>>

\* --------------------------------------------- orchestrator: provider fallback
\* A variant of invoke_fallback that lets the primary provider's error end
\* the task.
invoke_fallback_gives_up(t) ==
    /\ pc[t] = "llm_raised"
    /\ llm[t].provider = "AIPipe"
    /\ ~Elapsed(t)
    /\ LoopFree(t)
    /\ process_task_except(t)
    /\ UNCHANGED <<library, front, deadline, visited, llm, llm_response, remote_text, calls,
                   existing_code, repo>>

\* "except LLMGenerationError" around the primary provider: the secondary
\* provider is invoked with the same llm_request.
invoke_fallback(t) ==
    /\ pc[t] = "llm_raised"
    /\ llm[t].provider = "AIPipe"
    /\ llm[t].error = "LLMGenerationError"
    /\ ~Elapsed(t)
    /\ LoopFree(t)
    /\ invoke_provider(t, "HuggingFace", existing_code[t])
    /\ UNCHANGED <<library, front, deadline, visited, llm_response, remote_text,
                   existing_code, repo, callback>>

\* "except Exception as fallback_error" around the secondary provider:
\* Exception("Both LLM providers failed") ends the task.
both_providers_failed(t) ==
    /\ pc[t] = "llm_raised"
    /\ llm[t].provider = "HuggingFace"
    /\ ~Elapsed(t)
    /\ LoopFree(t)
    /\ process_task_except(t)
    /\ UNCHANGED <<library, front, deadline, visited, llm, llm_response, remote_text, calls,
                   existing_code, repo>>

\* A primary provider written to the BaseLLMAdapter contract may raise
\* LLMGenerationError from generate_application.
primary_raises(t) ==
    /\ pc[t] = "aipipe_post"
    /\ ~Elapsed(t)
    /\ LoopFree(t)
    /\ provider_raises(t, "LLMGenerationError")
    /\ UNCHANGED <<library, front, deadline, visited, existing_code, repo, callback>>

\* ------------------------------------------------ steps 4-6: the repository
\* Step 4 names the repository after the task.
repo_name(t) == request[t].task

\* The adapter is closed, step 3 is over (llm_request is used no more) and
\* step 4 enters the blocking create-or-get call.
manage_repository(t) ==
    /\ pc[t] = "aclose"
    /\ ~Elapsed(t)
    /\ LoopFree(t)
    /\ visited' = [visited EXCEPT ![t] = Append(@, "GENERATED")]
    /\ gh_calls' = [gh_calls EXCEPT ![t] = Append(@, "create_or_get_repository")]
    /\ gh_attempt' = [gh_attempt EXCEPT ![t] = 0]
    /\ pc' = [pc EXCEPT ![t] = "create_or_get"]
    /\ existing_code' = [existing_code EXCEPT ![t] = "None"]
    /\ calls' = [calls EXCEPT ![t] = <<>>]
    /\ UNCHANGED <<library, front, deadline, llm, llm_response, remote_text, result,
                   commit, callback>>

\* A GithubException inside a retry_sync-wrapped operation: time.sleep and
\* another attempt, or the exception reaches process_task.
gh_call_fails(t, stage, max_attempts) ==
    /\ pc[t] = stage
    /\ IF retry_decision(gh_attempt[t], max_attempts, TRUE) = "sleep"
       THEN /\ gh_attempt' = [gh_attempt EXCEPT ![t] = @ + 1]
            /\ UNCHANGED <<pc, callback>>
            /\ UNCHANGED gh_calls
       ELSE /\ process_task_except(t)
            /\ gh_calls' = [gh_calls EXCEPT ![t] = Append(@, "GithubException")]
            /\ UNCHANGED gh_attempt
    /\ UNCHANGED <<library, front, deadline, visited, llm, llm_response, remote_text, calls,
                   existing_code, result, commit>>

create_or_get_fails(t) == gh_call_fails(t, "create_or_get", CreateMaxAttempts)

\* create_or_get_repository returns the repository info of the repository
\* named after the task, whose branch holds tr; step 5 moves the files of
\* llm_response into the dict to commit (the response is used no more) and
\* step 6 enters the blocking commit_files call.
create_or_get_returns(t, tr) ==
    /\ pc[t] = "create_or_get"
    /\ result' = [result EXCEPT ![t].repo_url = html_url(request[t].task)]
    /\ visited' = [visited EXCEPT ![t] = Append(@, "REPO_READY")]
    /\ gh_calls' = [gh_calls EXCEPT ![t] = Append(@, "commit_files")]
    /\ gh_attempt' = [gh_attempt EXCEPT ![t] = 0]
    /\ tree' = [tree EXCEPT ![t] = tr]
    /\ head' = [head EXCEPT ![t] = 0]
    /\ cursor' = [cursor EXCEPT ![t] = 1]
    /\ last_commit_sha' = [last_commit_sha EXCEPT ![t] = EmptySha]
    /\ written' = [written EXCEPT ![t] = {}]
    /\ writes' = [writes EXCEPT ![t] = [before |-> tr, ops |-> <<>>]]
    /\ llm_response' = [llm_response EXCEPT ![t] = NoResponse]
    /\ remote_text' = [remote_text EXCEPT ![t] = <<>>]
    /\ pc' = [pc EXCEPT ![t] = "commit_files"]
    /\ UNCHANGED <<library, front, deadline, llm, calls, existing_code, callback>>

\* A variant of commit_file that writes every file without comparing it with
\* the branch.
commit_file_always_writes(t) ==
    /\ pc[t] = "commit_files"
    /\ cursor[t] <= Len(CommitOrder)
    /\ LET f == CommitOrder[cursor[t]]
       IN /\ tree' = [tree EXCEPT ![t][f] = "same"]
          /\ head' = [head EXCEPT ![t] = @ + 1]
          /\ last_commit_sha' = [last_commit_sha EXCEPT ![t] = Sha(head[t] + 1)]
          /\ written' = [written EXCEPT ![t] = @ \cup {f}]
          /\ writes' = [writes EXCEPT ![t].ops = Append(@, remote_write(tree[t][f], f))]
    /\ cursor' = [cursor EXCEPT ![t] = @ + 1]
    /\ UNCHANGED <<library, front, pc, deadline, visited, llm, llm_response, remote_text, calls,
                   existing_code, gh_attempt, gh_calls, result, callback>>

\* One iteration of the loop of commit_files that raises nothing: the file
\* is on the branch with the same content (skipped), with another content
\* (update_file), or get_contents answered 404 (create_file).  Each write is
\* a commit of its own on the branch.
commit_file(t) ==
    /\ pc[t] = "commit_files"
    /\ cursor[t] <= Len(CommitOrder)
    /\ LET f == CommitOrder[cursor[t]]
       IN IF tree[t][f] = "same"
          THEN UNCHANGED <<tree, head, last_commit_sha, written, writes>>
          ELSE /\ tree' = [tree EXCEPT ![t][f] = "same"]
               /\ head' = [head EXCEPT ![t] = @ + 1]
               /\ last_commit_sha' = [last_commit_sha EXCEPT ![t] = Sha(head[t] + 1)]
               /\ written' = [written EXCEPT ![t] = @ \cup {f}]
               /\ writes' = [writes EXCEPT ![t].ops = Append(@, remote_write(tree[t][f], f))]
    /\ cursor' = [cursor EXCEPT ![t] = @ + 1]
    /\ UNCHANGED <<library, front, pc, deadline, visited, llm, llm_response, remote_text, calls,
                   existing_code, gh_attempt, gh_calls, result, callback>>

\* What a hosting-API call of commit_files may raise: a GithubException other
\* than the 404 of a missing file, which retry_sync retries, or an error of
\* the transport, which it does not.
GithubFailures == {"GithubException", "ConnectionError"}
GithubRetryable == {"GithubException"}

\* get_repo, get_contents, update_file or create_file raises in the current
\* iteration.  retry_sync sleeps and calls commit_files again from its first
\* line (a new last_commit_sha, the loop from the first file), or the
\* exception reaches process_task and the locals of the call are gone.
commit_files_fails(t, kind) ==
    /\ pc[t] = "commit_files"
    /\ cursor[t] <= Len(CommitOrder)
    /\ IF retry_decision(gh_attempt[t], CommitMaxAttempts, kind \in GithubRetryable) = "sleep"
       THEN /\ gh_attempt' = [gh_attempt EXCEPT ![t] = @ + 1]
            /\ cursor' = [cursor EXCEPT ![t] = 1]
            /\ last_commit_sha' = [last_commit_sha EXCEPT ![t] = EmptySha]
            /\ UNCHANGED <<pc, callback, gh_calls>>
       ELSE /\ process_task_except(t)
            /\ gh_calls' = [gh_calls EXCEPT ![t] = Append(@, kind)]
            /\ gh_attempt' = [gh_attempt EXCEPT ![t] = 0]
            /\ cursor' = [cursor EXCEPT ![t] = 1]
            /\ last_commit_sha' = [last_commit_sha EXCEPT ![t] = EmptySha]
    /\ UNCHANGED <<library, front, deadline, visited, llm, llm_response, remote_text, calls,
                   existing_code, result, tree, head, written, writes>>

\* The loop is over: commit_files returns last_commit_sha; step 7 (of the
\* code) calls enable_pages.
commit_files_returns(t) ==
    /\ pc[t] = "commit_files"
    /\ cursor[t] = Len(CommitOrder) + 1
    /\ result' = [result EXCEPT ![t].commit_sha = last_commit_sha[t]]
    /\ visited' = [visited EXCEPT ![t] = Append(@, "COMMITTED")]
    /\ gh_calls' = [gh_calls EXCEPT ![t] = Append(@, "enable_pages")]
    /\ gh_attempt' = [gh_attempt EXCEPT ![t] = 0]
    /\ pc' = [pc EXCEPT ![t] = "enable_pages"]
    /\ UNCHANGED <<library, front, deadline, llm, llm_response, remote_text, calls,
                   existing_code, commit, callback>>

\* The number of commit_files calls the task has made.
CommitCalls(t) == Len(SelectSeq(gh_calls[t], LAMBDA c : c = "commit_files"))

\* A caller that has the result of commit_files calls it again with the same
\* repository, branch and files; nothing else has touched the branch.
commit_files_called(t) ==
    /\ pc[t] = "enable_pages"
    /\ CommitCalls(t) < MaxCalls
    /\ gh_calls' = [gh_calls EXCEPT ![t] = Append(@, "commit_files")]
    /\ gh_attempt' = [gh_attempt EXCEPT ![t] = 0]
    /\ cursor' = [cursor EXCEPT ![t] = 1]
    /\ last_commit_sha' = [last_commit_sha EXCEPT ![t] = EmptySha]
    /\ written' = [written EXCEPT ![t] = {}]
    /\ writes' = [writes EXCEPT ![t] = [before |-> tree[t], ops |-> <<>>]]
    /\ pc' = [pc EXCEPT ![t] = "commit_files"]
    /\ UNCHANGED <<library, front, deadline, visited, llm, llm_response, remote_text, calls,
                   existing_code, result, tree, head, callback>>

\* ------------------------------------------------------ step 7: the callback
\* A variant of the delay for a loop counted from 1.
callback_delay_from_one(attempt) == 2 ^ (attempt + 1)

\* 2 ** attempt
callback_delay(attempt) == 2 ^ attempt

\* "if attempt < max_retries - 1": a sleep follows the failed attempt.
callback_sleeps_after(attempt) == attempt < max_retries - 1

\* A variant of step 8 that composes the result from the request received
\* last (a module-level "current request") instead of the task's own.
EvaluationResult_of_latest(t) ==
    LET latest == CHOOSE u \in Tasks :
                      /\ request[u] # NoRequest
                      /\ \A v \in Tasks : request[v] # NoRequest => v <= u
    IN [result[t] EXCEPT !.email = request[latest].email,
                         !.task = request[latest].task,
                         !.round = request[latest].round,
                         !.nonce = request[latest].nonce,
                         !.pages_url = pages_url_of(request[latest].task)]

\* Step 8: the EvaluationResult of the task, from its request, the repo_info
\* and commit_sha of its steps 4 and 6, and the pages URL enable_pages
\* returned for its repository.
EvaluationResult(t) ==
    [result[t] EXCEPT !.email = request[t].email,
                      !.task = request[t].task,
                      !.round = request[t].round,
                      !.nonce = request[t].nonce,
                      !.pages_url = pages_url_of(request[t].task)]

\* enable_pages returns the predicted URL, _process_task_internal returns the
\* result, wait_for hands it to process_task (the inner coroutine finished
\* without reaching another await, so its result is delivered whether or not
\* the timeout has elapsed meanwhile) and post_to_evaluation_url makes its
\* first POST.
enable_pages_returns(t) ==
    /\ pc[t] = "enable_pages"
    /\ result' = [result EXCEPT ![t] = EvaluationResult(t)]
    /\ visited' = [visited EXCEPT ![t] = Append(@, "PAGES_ENABLED")]
    /\ cb_attempt' = [cb_attempt EXCEPT ![t] = 0]
    /\ posts' = [posts EXCEPT ![t] = @ + 1]
    /\ pc' = [pc EXCEPT ![t] = "cb_post"]
    /\ UNCHANGED <<library, front, deadline, llm, llm_response, remote_text, calls,
                   existing_code, gh_attempt, gh_calls, commit, sleeps>>

PostOutcomes == {"200", "non200", "transport_error"}

\* A variant of post_ends whose backoff sleep does not depend on the status
\* of the response.
post_ends_sleeps_after_200(t, outcome) ==
    /\ pc[t] = "cb_post"
    /\ LoopFree(t)
    /\ IF outcome = "200"
       THEN /\ pc' = [pc EXCEPT ![t] = "reported"]
            /\ visited' = [visited EXCEPT ![t] = Append(@, "REPORTED")]
            /\ sleeps' = [sleeps EXCEPT ![t] = Append(@, callback_delay(cb_attempt[t]))]
       ELSE IF callback_sleeps_after(cb_attempt[t])
       THEN /\ pc' = [pc EXCEPT ![t] = "cb_sleep"]
            /\ sleeps' = [sleeps EXCEPT ![t] = Append(@, callback_delay(cb_attempt[t]))]
            /\ UNCHANGED visited
       ELSE /\ pc' = [pc EXCEPT ![t] = "unreported"]
            /\ UNCHANGED <<visited, sleeps>>
    /\ UNCHANGED <<library, front, deadline, llm, llm_response, remote_text, calls,
                   existing_code, repo, cb_attempt, posts>>

\* The POST of attempt cb_attempt ends: 200 returns True; anything else is
\* logged and followed by the backoff sleep, or by the end of the loop.
post_ends(t, outcome) ==
    /\ pc[t] = "cb_post"
    /\ LoopFree(t)
    /\ IF outcome = "200"
       THEN /\ pc' = [pc EXCEPT ![t] = "reported"]
            /\ visited' = [visited EXCEPT ![t] = Append(@, "REPORTED")]
            /\ UNCHANGED sleeps
       ELSE IF callback_sleeps_after(cb_attempt[t])
       THEN /\ pc' = [pc EXCEPT ![t] = "cb_sleep"]
            /\ sleeps' = [sleeps EXCEPT ![t] = Append(@, callback_delay(cb_attempt[t]))]
            /\ UNCHANGED visited
       ELSE /\ pc' = [pc EXCEPT ![t] = "unreported"]
            /\ UNCHANGED <<visited, sleeps>>
    /\ UNCHANGED <<library, front, deadline, llm, llm_response, remote_text, calls,
                   existing_code, repo, cb_attempt, posts>>

\* asyncio.sleep(delay) ends: the next iteration of the loop makes its POST.
post_sleep_done(t) ==
    /\ pc[t] = "cb_sleep"
    /\ LoopFree(t)
    /\ cb_attempt' = [cb_attempt EXCEPT ![t] = @ + 1]
    /\ posts' = [posts EXCEPT ![t] = @ + 1]
    /\ pc' = [pc EXCEPT ![t] = "cb_post"]
    /\ UNCHANGED <<library, front, deadline, visited, llm, llm_response, remote_text, calls,
                   existing_code, repo, sleeps>>

\* ---------------------------------------------------------- specifications
\* The remote texts of the pipeline specifications: no file block, and one
\* index page block.
PipelineTexts == {<<"code">>, <<IndexName, "code">>}
\* The branches the pipeline specifications meet: a new repository, and one
\* that already holds the task's files.
PipelineTrees == {FreshTree, UnchangedTree}

FrontDoor ==
    \E t \in Tasks, secret \in Strings(MaxSecretLen), rnd \in Rounds :
        api_endpoint(t, secret, rnd)

Timer == \E t \in Tasks : deadline_elapses(t) \/ timeout_fires(t)

\* The steps of task t's coroutine outside the provider.
OrchestratorOf(t) ==
    \/ process_task(t)
    \/ \E o \in FetchOutcomes : fetch_existing_code(t, o)
    \/ fetch_manager_fails(t)
    \/ manage_repository(t)
    \/ create_or_get_fails(t)
    \/ \E tr \in PipelineTrees : create_or_get_returns(t, tr)
    \/ commit_file(t)
    \/ \E k \in GithubFailures : commit_files_fails(t, k)
    \/ commit_files_returns(t)
    \/ enable_pages_returns(t)
    \/ \E o \in PostOutcomes : post_ends(t, o)
    \/ post_sleep_done(t)

Orchestrator == \E t \in Tasks : OrchestratorOf(t)

\* The steps of task t inside AIPipeLLMAdapter.generate_application.
AIPipeOf(t, texts) ==
    \/ \E c \in texts : aipipe_post_returns(t, c)
    \/ \E k \in AIPipeFailures : aipipe_post_fails(t, k)
    \/ aipipe_sleep_done(t)

AIPipe(texts) == \E t \in Tasks : AIPipeOf(t, texts)

HuggingFace(texts) ==
    \E t \in Tasks :
        \/ \E c \in texts : hf_post_returns(t, c)
        \/ \E k \in HFFailures : hf_post_fails(t, k)

Fallback ==
    \E t \in Tasks : primary_raises(t) \/ invoke_fallback(t) \/ both_providers_failed(t)

\* The service as deployed: the primary provider is AIPipeLLMAdapter, whose
\* generate_application has no raise that reaches the orchestrator.
Next == FrontDoor \/ Timer \/ Orchestrator \/ AIPipe(PipelineTexts)
Spec == Init /\ [][Next]_vars

\* The deployed service under fair scheduling.  The event loop resumes every
\* ready coroutine, so a step of a task that stays possible is taken; every
\* external call ends, by its response, its failure or its client timeout
\* (httpx timeouts, the PyGithub timeout), and every sleep ends.  Nothing
\* obliges a client to send a request or the 570 s to elapse.
StepOf(t) == OrchestratorOf(t) \/ AIPipeOf(t, PipelineTexts) \/ timeout_fires(t)
Fairness == \A t \in Tasks : WF_vars(StepOf(t))
SpecLive == Init /\ [][Next]_vars /\ Fairness

\* The orchestrator with a primary provider that may raise LLMGenerationError,
\* and the secondary provider behind it.
NextFallback == Next \/ Fallback \/ HuggingFace(PipelineTexts)
SpecFallback == Init /\ [][NextFallback]_vars

\* One generate_application call of either provider, made by task 1 with a
\* first-round request, against every remote text of up to MaxLines lines.
InitProviders ==
    \E provider \in {"AIPipe", "HuggingFace"} :
        /\ request = [t \in Tasks |-> IF t = 1 THEN TaskRequest(1, service_secret, 1)
                                       ELSE NoRequest]
        /\ resp = [t \in Tasks |-> IF t = 1 THEN 200 ELSE 0]
        /\ body = [t \in Tasks |-> IF t = 1 THEN TaskResponse ELSE NoBody]
        /\ background = [t \in Tasks |-> IF t = 1 THEN 1 ELSE 0]
        /\ pc = [t \in Tasks |-> IF t # 1 THEN "idle"
                                 ELSE IF provider = "AIPipe" THEN "aipipe_post" ELSE "hf_post"]
        /\ deadline = [t \in Tasks |-> "pending"]
        /\ visited = [t \in Tasks |-> IF t = 1 THEN <<"RECEIVED", "ATTACHMENTS_PARSED">> ELSE <<>>]
        /\ llm = [t \in Tasks |-> IF t = 1 THEN [provider |-> provider, model |-> 1,
                                                  attempt |-> 0, error |-> "none"]
                                  ELSE NoCall]
        /\ llm_response = [t \in Tasks |-> NoResponse]
        /\ remote_text = [t \in Tasks |-> <<>>]
        /\ calls = [t \in Tasks |-> IF t = 1
                       THEN <<[provider |-> provider, round |-> 1, existing_code |-> "None",
                               failed |-> 0, outcome |-> "pending"]>>
                       ELSE <<>>]
        /\ existing_code = [t \in Tasks |-> "None"]
        /\ gh_attempt = [t \in Tasks |-> 0]
        /\ gh_calls = [t \in Tasks |-> <<>>]
        /\ result = [t \in Tasks |-> NoResult]
        /\ cb_attempt = [t \in Tasks |-> 0]
        /\ posts = [t \in Tasks |-> 0]
        /\ sleeps = [t \in Tasks |-> <<>>]
        /\ tree = [t \in Tasks |-> NoTree]
        /\ head = [t \in Tasks |-> 0]
        /\ cursor = [t \in Tasks |-> 1]
        /\ last_commit_sha = [t \in Tasks |-> EmptySha]
        /\ written = [t \in Tasks |-> {}]
        /\ writes = [t \in Tasks |-> [before |-> tree[t], ops |-> <<>>]]
        /\ wrapper = NoWrapper
        /\ backoff = NoBackoff
        /\ attachment = NoAttachment
        /\ manager = NoManager
        /\ prepared = NoPrepared
        /\ shared = NoShared
        /\ markup = NoMarkup
NextProviders == AIPipe(Texts(MaxLines)) \/ HuggingFace(Texts(MaxLines))
SpecProviders == InitProviders /\ [][NextProviders]_vars

\* ------------------------------------------------- the library on its own
\* Every variable of the tasks.
pipeline == <<front, pc, deadline, visited, llm, llm_response, remote_text, calls,
              existing_code, repo, callback>>

\* The exceptions a wrapper was given to retry on, and what the wrapped
\* function may raise.
WrapperExceptions == {"GithubException", "HTTPError"}
WrapperFailures == WrapperExceptions \cup {"ValueError"}

\* func returns: the wrapper returns its value.
wrapper_returns ==
    /\ wrapper.status = "calling"
    /\ wrapper' = [wrapper EXCEPT !.status = "returned"]
    /\ UNCHANGED <<pipeline, manager, prepared, shared, backoff, attachment, markup>>

\* func raises an exception of kind `kind` in attempt wrapper.attempt.
wrapper_catches(kind) ==
    /\ wrapper.status = "calling"
    /\ IF retry_decision(wrapper.attempt, wrapper.max_attempts,
                         kind \in WrapperExceptions) = "sleep"
       THEN wrapper' = [wrapper EXCEPT !.failures = Append(@, kind),
                                       !.sleeps = @ + 1,
                                       !.status = "sleeping"]
       ELSE wrapper' = [wrapper EXCEPT !.failures = Append(@, kind),
                                       !.raised = kind,
                                       !.status = "raised"]
    /\ UNCHANGED <<pipeline, manager, prepared, shared, backoff, attachment, markup>>

\* time.sleep(delay) or asyncio.sleep(delay) is over: the next iteration of
\* the loop calls func.
wrapper_sleep_done ==
    /\ wrapper.status = "sleeping"
    /\ wrapper' = [wrapper EXCEPT !.attempt = @ + 1,
                                   !.invocations = @ + 1,
                                   !.status = "calling"]
    /\ UNCHANGED <<pipeline, manager, prepared, shared, backoff, attachment, markup>>

NextRetry ==
    \/ wrapper_returns
    \/ \E k \in WrapperFailures : wrapper_catches(k)
    \/ wrapper_sleep_done
\* One run of retry_sync's or retry_async's wrapper, in its first call of
\* func, for each max_attempts from 1 to MaxWrapperAttempts.
InitRetry ==
    /\ NoTasks
    /\ backoff = NoBackoff
    /\ attachment = NoAttachment
    /\ manager = NoManager
    /\ prepared = NoPrepared
    /\ shared = NoShared
    /\ markup = NoMarkup
    /\ \E m \in 1..MaxWrapperAttempts, b \in BOOLEAN :
           wrapper = [NoWrapper EXCEPT !.max_attempts = m, !.sync = b,
                                       !.invocations = 1, !.status = "calling"]
SpecRetry == InitRetry /\ [][NextRetry]_vars

Min(a, b) == IF a <= b THEN a ELSE b
Max(a, b) == IF a >= b THEN a ELSE b

\* factor ** attempt is a float power: Python raises OverflowError when the
\* result does not fit a double (2.0 ** 1024 and beyond). Within the arguments
\* below this is every factor of at least 2 at the attempt FloatMaxExp.
pow_overflows(factor, attempt) == factor >= 2 /\ attempt >= FloatMaxExp

\* exponential_backoff, in quarters of a second: min(base * factor ** attempt,
\* max_delay), plus random.uniform(-delay / 4, delay / 4) when jitter is on
\* (j quarters, any value in that range), and max(0, .) of the sum.
exponential_backoff(attempt, base, factor, max_delay, jitter, j) ==
    LET delay == Min(base * factor ^ attempt, max_delay)
    IN Max(0, IF jitter THEN 4 * delay + j ELSE 4 * delay)

\* The values random.uniform may return for the jitter, in quarters.
Jitters(b) ==
    LET delay == Min(b.base * b.factor ^ b.attempt, b.max_delay)
    IN IF b.jitter THEN (0 - delay)..delay ELSE {0}

exponential_backoff_returns(j) ==
    /\ backoff.status = "called"
    /\ ~pow_overflows(backoff.factor, backoff.attempt)
    /\ j \in Jitters(backoff)
    /\ backoff' = [backoff EXCEPT
           !.status = "returned",
           !.delay4 = exponential_backoff(backoff.attempt, backoff.base, backoff.factor,
                                          backoff.max_delay, backoff.jitter, j)]
    /\ UNCHANGED <<pipeline, manager, prepared, shared, wrapper, attachment, markup>>

\* The power on the first line of the function raises: nothing is returned.
exponential_backoff_raises ==
    /\ backoff.status = "called"
    /\ pow_overflows(backoff.factor, backoff.attempt)
    /\ backoff' = [backoff EXCEPT !.status = "OverflowError"]
    /\ UNCHANGED <<pipeline, manager, prepared, shared, wrapper, attachment, markup>>

\* The attempts exponential_backoff is called with: the first ones, and one
\* past the range of a double.
BackoffAttempts == (0..MaxBackoffAttempt) \cup {FloatMaxExp}

\* One call of exponential_backoff for each argument list within the bounds.
InitBackoff ==
    /\ NoTasks
    /\ wrapper = NoWrapper
    /\ attachment = NoAttachment
    /\ manager = NoManager
    /\ prepared = NoPrepared
    /\ shared = NoShared
    /\ markup = NoMarkup
    /\ \E a \in BackoffAttempts, b \in 0..MaxBase, f \in 1..MaxFactor,
          m \in 0..MaxDelay, jit \in BOOLEAN :
           backoff = [NoBackoff EXCEPT !.attempt = a, !.base = b, !.factor = f,
                                       !.max_delay = m, !.jitter = jit,
                                       !.status = "called"]
NextBackoff ==
    \/ \E j \in (0 - MaxDelay)..MaxDelay : exponential_backoff_returns(j)
    \/ exponential_backoff_raises
SpecBackoff == InitBackoff /\ [][NextBackoff]_vars

\* commit_files on its own: task 1 is in its call, on a branch in any state
\* against its files, and may call it again once it has returned.
InitRepository ==
    \E tr \in Trees :
        /\ request = [t \in Tasks |-> IF t = 1 THEN TaskRequest(1, service_secret, 1)
                                       ELSE NoRequest]
        /\ resp = [t \in Tasks |-> IF t = 1 THEN 200 ELSE 0]
        /\ body = [t \in Tasks |-> IF t = 1 THEN TaskResponse ELSE NoBody]
        /\ background = [t \in Tasks |-> IF t = 1 THEN 1 ELSE 0]
        /\ pc = [t \in Tasks |-> IF t = 1 THEN "commit_files" ELSE "idle"]
        /\ deadline = [t \in Tasks |-> "pending"]
        /\ visited = [t \in Tasks |-> IF t = 1
                         THEN <<"RECEIVED", "ATTACHMENTS_PARSED", "GENERATED", "REPO_READY">>
                         ELSE <<>>]
        /\ llm = [t \in Tasks |-> NoCall]
        /\ llm_response = [t \in Tasks |-> NoResponse]
        /\ remote_text = [t \in Tasks |-> <<>>]
        /\ calls = [t \in Tasks |-> <<>>]
        /\ existing_code = [t \in Tasks |-> "None"]
        /\ gh_attempt = [t \in Tasks |-> 0]
        /\ gh_calls = [t \in Tasks |-> IF t = 1
                          THEN <<"create_or_get_repository", "commit_files">> ELSE <<>>]
        /\ result = [t \in Tasks |-> IF t = 1
                        THEN [NoResult EXCEPT !.repo_url = html_url(TaskId(1))]
                        ELSE NoResult]
        /\ cb_attempt = [t \in Tasks |-> 0]
        /\ posts = [t \in Tasks |-> 0]
        /\ sleeps = [t \in Tasks |-> <<>>]
        /\ tree = [t \in Tasks |-> IF t = 1 THEN tr ELSE NoTree]
        /\ head = [t \in Tasks |-> 0]
        /\ cursor = [t \in Tasks |-> 1]
        /\ last_commit_sha = [t \in Tasks |-> EmptySha]
        /\ written = [t \in Tasks |-> {}]
        /\ writes = [t \in Tasks |-> [before |-> tree[t], ops |-> <<>>]]
        /\ wrapper = NoWrapper
        /\ backoff = NoBackoff
        /\ attachment = NoAttachment
        /\ manager = NoManager
        /\ prepared = NoPrepared
        /\ shared = NoShared
        /\ markup = NoMarkup
NextRepository ==
    \E t \in Tasks :
        \/ commit_file(t)
        \/ \E k \in GithubFailures : commit_files_fails(t, k)
        \/ commit_files_returns(t)
        \/ commit_files_called(t)
SpecRepository == InitRepository /\ [][NextRepository]_vars

\* ------------------------------------------------------------- data URIs
\* A data URI is a string made of these pieces; "QUJD" is the base64 of
\* three characters, "/w==" the padded base64 of one byte, "QU" half a group,
\* "%41" a percent-encoded letter.
UriTokens == {"data:", ";base64", ",", "QUJD", "/w==", "QU", "!", "%41"}

\* The values _parse_data_uri may be handed: None, a value that is no string,
\* and the strings of at most MaxUriLen pieces (the empty one included).
DataUris ==
    {[type |-> ty, text |-> <<>>] : ty \in {"NoneType", "int"}}
        \cup {[type |-> "str", text |-> x] :
                x \in UNION {[1..n -> UriTokens] : n \in 0..MaxUriLen}}

\* What binascii.a2b_base64 sees of a piece: "c" for a character of the base64
\* alphabet, "=" for a pad; it discards every other character.
Base64Chars(tok) ==
    CASE tok = "data:" -> <<"c", "c", "c", "c">>
      [] tok = ";base64" -> <<"c", "c", "c", "c", "c", "c">>
      [] tok = "QUJD" -> <<"c", "c", "c", "c">>
      [] tok = "/w==" -> <<"c", "c", "=", "=">>
      [] tok = "QU" -> <<"c", "c">>
      [] tok = "%41" -> <<"c", "c">>
      [] OTHER -> <<>>

\* binascii.a2b_base64 without strict mode, from character i on: quad is the
\* position inside the group of four, pads the pads seen in it, n the
\* alphabet characters read.  Pads that complete a group end the decoding; at
\* the end of the input an open group is "Incorrect padding".
RECURSIVE a2b_base64(_, _, _, _, _)
a2b_base64(chars, i, quad, pads, n) ==
    IF i > Len(chars)
    THEN IF quad # 0
         THEN [raised |-> "binascii.Error", bytes |-> 0]
         ELSE [raised |-> "none", bytes |-> (n \div 4) * 3]
    ELSE IF chars[i] = "="
         THEN IF quad >= 2 /\ quad + pads + 1 >= 4
              THEN [raised |-> "none", bytes |-> (n \div 4) * 3 + (quad - 1)]
              ELSE a2b_base64(chars, i + 1, quad, IF quad >= 2 THEN pads + 1 ELSE pads, n)
         ELSE a2b_base64(chars, i + 1, (quad + 1) % 4, 0, n + 1)

\* base64.b64decode of a text given by its pieces.
b64decode(encoded) ==
    LET RECURSIVE chars_of(_)
        chars_of(e) == IF e = <<>> THEN <<>>
                       ELSE Base64Chars(Head(e)) \o chars_of(Tail(e))
    IN a2b_base64(chars_of(encoded), 1, 0, 0, 0)

\* decoded.decode('utf-8'), or decoded.hex() when the bytes are no UTF-8:
\* either way one piece of text for each byte.
decode(bytes) == [i \in 1..bytes |-> "byte"]

\* urllib.parse.unquote.
unquote(encoded) == [i \in 1..Len(encoded) |-> IF encoded[i] = "%41" THEN "A" ELSE encoded[i]]

\* The position of the first comma (0: none).
FirstComma(text) ==
    IF \E i \in 1..Len(text) : text[i] = ","
    THEN CHOOSE i \in 1..Len(text) :
             text[i] = "," /\ \A j \in 1..(i - 1) : text[j] # ","
    ELSE 0

\* _parse_data_uri.  In its try block split(",", 1) raises ValueError when it
\* yields one part, and the header decides between base64 and
\* percent-encoding; the except clause turns ValueError, TypeError and
\* binascii.Error into "".
parse_data_uri(data_uri) ==
    LET text == data_uri.text
        comma == FirstComma(text)
        header == SubSeq(text, 1, comma - 1)
        encoded == SubSeq(text, comma + 1, Len(text))
        decoded == b64decode(encoded)
        try == IF comma = 0
               THEN [raised |-> "ValueError", content |-> <<>>]
               ELSE IF \E i \in 1..Len(header) : header[i] = ";base64"
                    THEN IF decoded.raised # "none"
                         THEN [raised |-> decoded.raised, content |-> <<>>]
                         ELSE [raised |-> "none", content |-> decode(decoded.bytes)]
                    ELSE [raised |-> "none", content |-> unquote(encoded)]
    IN IF data_uri.type # "str" \/ text = <<>>
       THEN [raised |-> "none", content |-> <<>>]
       ELSE IF text[1] # "data:"
            THEN [raised |-> "none", content |-> text]
            ELSE IF try.raised \in {"ValueError", "TypeError", "binascii.Error"}
                 THEN [raised |-> "none", content |-> <<>>]
                 ELSE try

parse_data_uri_ends ==
    /\ attachment.status = "called"
    /\ LET r == parse_data_uri(attachment.url)
       IN attachment' = [attachment EXCEPT
              !.status = IF r.raised = "none" THEN "returned" ELSE r.raised,
              !.content = r.content]
    /\ UNCHANGED <<pipeline, manager, prepared, shared, wrapper, backoff, markup>>

\* One call of _parse_data_uri for each value within the bounds.
InitAttachments ==
    /\ NoTasks
    /\ wrapper = NoWrapper
    /\ backoff = NoBackoff
    /\ markup = NoMarkup
    /\ manager = NoManager
    /\ prepared = NoPrepared
    /\ shared = NoShared
    /\ \E u \in DataUris :
           attachment = [NoAttachment EXCEPT !.url = u, !.status = "called"]
SpecAttachments == InitAttachments /\ [][parse_data_uri_ends]_vars

\* ------------------------------------------------------- fallback markup
\* The words an element identifier is made of, joined by hyphens.  No word
\* is part of another one, so "w in elem_id" is: w is one of its words.
IdWords == {"Button", "btn", "button", "calculate", "count", "filter", "input",
            "num", "picker", "select", "submit", "total"}

\* The identifiers: one to MaxIdWords words with hyphens between them.
ElementIds ==
    LET RECURSIVE hyphenate(_)
        hyphenate(ws) == IF Len(ws) <= 1 THEN ws
                         ELSE <<Head(ws), "-">> \o hyphenate(Tail(ws))
    IN {hyphenate(ws) : ws \in UNION {[1..n -> IdWords] : n \in 1..MaxIdWords}}

\* The lists of one to MaxChecks checks of the form "#<id> exists".
CheckLists ==
    UNION {[1..n -> {<<"#">> \o id \o <<" ", "exists">> : id \in ElementIds}] :
              n \in 1..MaxChecks}

\* re.findall(r'#([\w-]+)', check) from piece i on: after each "#", the longest
\* run of words and hyphens, when there is one.
RECURSIVE findall(_, _)
findall(check, i) ==
    LET word(j) == check[j] \notin {"#", " "}
        run_end == IF \E j \in (i + 1)..Len(check) : ~word(j)
                   THEN (CHOOSE j \in (i + 1)..Len(check) :
                             ~word(j) /\ \A h \in (i + 1)..(j - 1) : word(h)) - 1
                   ELSE Len(check)
    IN IF i > Len(check) THEN <<>>
       ELSE IF check[i] = "#" /\ run_end >= i + 1
            THEN <<SubSeq(check, i + 1, run_end)>> \o findall(check, run_end + 1)
            ELSE findall(check, i + 1)

\* "any(word in text for word in words)" for a text given by its pieces.
AnyIn(words, text) == \E i \in 1..Len(text) : text[i] \in words
\* str.lower().
lower(text) == [i \in 1..Len(text) |-> IF text[i] = "Button" THEN "button" ELSE text[i]]

\* The markup lists its elements sorted by identifier.  A sorted list is given
\* by the number of times each element occurs in it: the markup is that
\* function, from the elements it holds to their number.
Occurrences(q) ==
    [e \in {q[i] : i \in 1..Len(q)} |-> Cardinality({i \in 1..Len(q) : q[i] = e})]

\* The element AIPipeLLMAdapter._generate_fallback_html writes for elem_id.
aipipe_element(elem_id) ==
    IF AnyIn({"input", "num"}, elem_id)
    THEN [id |-> elem_id, tag |-> "input", type |-> "number"]
    ELSE IF AnyIn({"button", "calculate", "submit"}, elem_id)
    THEN [id |-> elem_id, tag |-> "button", type |-> "none"]
    ELSE IF AnyIn({"select", "picker", "filter"}, elem_id)
    THEN [id |-> elem_id, tag |-> "select", type |-> "none"]
    ELSE [id |-> elem_id, tag |-> "div", type |-> "none"]

\* AIPipeLLMAdapter._generate_fallback_html: one element for each identifier
\* of the set element_ids.
aipipe_generate_fallback_html(checks) ==
    LET element_ids == UNION {{findall(checks[c], 1)[i] :
                                  i \in 1..Len(findall(checks[c], 1))} :
                              c \in 1..Len(checks)}
    IN [e \in {aipipe_element(id) : id \in element_ids} |-> 1]

\* HuggingFaceLLMAdapter._determine_element_type.
determine_element_type(elem_id, context) ==
    LET id == lower(elem_id)
    IN IF AnyIn({"number", "calculate", "sum", "total"}, context) THEN "number"
       ELSE IF AnyIn({"email", "mail"}, context) THEN "email"
       ELSE IF AnyIn({"password", "pwd"}, context) THEN "password"
       ELSE IF AnyIn({"date", "calendar"}, context) THEN "date"
       ELSE IF AnyIn({"color", "colour"}, context) THEN "color"
       ELSE IF AnyIn({"button", "submit", "send"}, id) THEN "button"
       ELSE IF AnyIn({"select", "dropdown", "picker"}, id) THEN "select"
       ELSE IF AnyIn({"text", "area", "message"}, id) THEN "textarea"
       ELSE IF AnyIn({"input"}, context) THEN "text"
       ELSE "div"

\* HuggingFaceLLMAdapter._create_html_element.
create_html_element(elem_id, element_type) ==
    IF element_type \in {"button", "select", "textarea", "div"}
    THEN [id |-> elem_id, tag |-> element_type, type |-> "none"]
    ELSE [id |-> elem_id, tag |-> "input", type |-> element_type]

\* HuggingFaceLLMAdapter._generate_fallback_html: one element for each entry
\* of the list elements_info, an identifier found twice included.
hf_generate_fallback_html(checks) ==
    LET info(check) ==
            LET ids == findall(check, 1)
            IN [i \in 1..Len(ids) |->
                   create_html_element(ids[i], determine_element_type(ids[i], lower(check)))]
        RECURSIVE elements_info(_)
        elements_info(cs) == IF cs = <<>> THEN <<>>
                             ELSE info(Head(cs)) \o elements_info(Tail(cs))
    IN Occurrences(elements_info(checks))

generate_fallback_html_returns ==
    /\ markup.status = "called"
    /\ markup' = [markup EXCEPT
           !.status = "returned",
           !.elements = IF markup.adapter = "AIPipe"
                        THEN aipipe_generate_fallback_html(markup.checks)
                        ELSE hf_generate_fallback_html(markup.checks)]
    /\ UNCHANGED <<pipeline, manager, prepared, shared, wrapper, backoff, attachment>>

\* One call of _generate_fallback_html of either adapter for each list of
\* checks within the bounds.
InitMarkup ==
    /\ NoTasks
    /\ wrapper = NoWrapper
    /\ backoff = NoBackoff
    /\ attachment = NoAttachment
    /\ manager = NoManager
    /\ prepared = NoPrepared
    /\ shared = NoShared
    /\ \E a \in {"AIPipe", "HuggingFace"}, c \in CheckLists :
           markup = [NoMarkup EXCEPT !.adapter = a, !.checks = c, !.status = "called"]
SpecMarkup == InitMarkup /\ [][generate_fallback_html_returns]_vars

\* ------------------------------------------- GitHubManager operations
\* One call of create_or_get_repository, get_file_content or enable_pages on
\* its own, against an account that holds the repository or does not.
ManagerOps == {"create_or_get_repository", "get_file_content", "enable_pages"}
RepoNames == {TaskId(t) : t \in Tasks}
\* The paths of get_all_workflows(), in the order of the dict.
WorkflowOrder == <<".github/workflows/pages.yml", ".github/workflows/ci.yml">>

\* The GitHubRepoInfo both branches of create_or_get_repository build.
GitHubRepoInfo(name, created) ==
    [repo_name |-> name, repo_url |-> html_url(name), pages_url |-> pages_url_of(name),
     created |-> created]

\* get_repo finds the repository and get_commits lists its commits: the
\* lookup branch returns created=False, in a first attempt and in a later one.
get_repo_returns ==
    /\ manager.op = "create_or_get_repository"
    /\ manager.status = "get_repo"
    /\ manager.exists
    /\ manager' = [manager EXCEPT
                      !.info = GitHubRepoInfo(manager.repo_name, FALSE),
                      !.status = "returned"]
    /\ UNCHANGED <<pipeline, prepared, shared, wrapper, backoff, attachment, markup>>

\* get_repo raises GithubException with status 404: the handler goes on to
\* create the repository.
get_repo_not_found ==
    /\ manager.op = "create_or_get_repository"
    /\ manager.status = "get_repo"
    /\ ~manager.exists
    /\ manager' = [manager EXCEPT !.not_found = TRUE, !.status = "create_repo"]
    /\ UNCHANGED <<pipeline, prepared, shared, wrapper, backoff, attachment, markup>>

\* create_repo(auto_init=True) returns: the account holds the repository.
create_repo_returns ==
    /\ manager.status = "create_repo"
    /\ manager' = [manager EXCEPT !.exists = TRUE, !.created_here = TRUE,
                                   !.status = "get_commits"]
    /\ UNCHANGED <<pipeline, prepared, shared, wrapper, backoff, attachment, markup>>

\* list(repo.get_commits()) of the new repository returns.
get_commits_returns ==
    /\ manager.status = "get_commits"
    /\ manager' = [manager EXCEPT !.status = "add_workflows"]
    /\ UNCHANGED <<pipeline, prepared, shared, wrapper, backoff, attachment, markup>>

\* One iteration of _add_workflows: commit_files for the next workflow file
\* returns, or raises and the exception is logged and dropped.
add_workflow(attaches) ==
    /\ manager.status = "add_workflows"
    /\ Cardinality(manager.attempted) < Len(WorkflowOrder)
    /\ LET path == WorkflowOrder[Cardinality(manager.attempted) + 1]
       IN manager' = [manager EXCEPT
                         !.attempted = @ \cup {path},
                         !.attached = IF attaches THEN @ \cup {path} ELSE @]
    /\ UNCHANGED <<pipeline, prepared, shared, wrapper, backoff, attachment, markup>>

\* _add_workflows is over: the creating branch returns created=True.
create_repo_branch_returns ==
    /\ manager.status = "add_workflows"
    /\ Cardinality(manager.attempted) = Len(WorkflowOrder)
    /\ manager' = [manager EXCEPT !.info = GitHubRepoInfo(manager.repo_name, TRUE),
                                   !.status = "returned"]
    /\ UNCHANGED <<pipeline, prepared, shared, wrapper, backoff, attachment, markup>>

\* A hosting-API call of create_or_get_repository raises something else than
\* the 404 of the lookup.  Raised in the try or in the except handler, it
\* leaves the function; retry_sync calls the function again from its first
\* line (the lookup), or re-raises.
create_or_get_raises(kind) ==
    /\ manager.op = "create_or_get_repository"
    /\ manager.status \in {"get_repo", "create_repo", "get_commits"}
    /\ IF retry_decision(manager.attempt, CreateMaxAttempts, kind \in GithubRetryable) = "sleep"
       THEN manager' = [manager EXCEPT !.attempt = @ + 1, !.not_found = FALSE,
                                       !.status = "get_repo"]
       ELSE manager' = [manager EXCEPT !.raised = kind, !.status = "raised"]
    /\ UNCHANGED <<pipeline, prepared, shared, wrapper, backoff, attachment, markup>>

\* get_file_content: get_repo (outside the try) raises the 404 of a missing
\* repository (PyGithub's UnknownObjectException); get_contents returns the file, or raises 404 and the function
\* returns "".
get_file_content_ends ==
    /\ manager.op = "get_file_content"
    /\ manager.status = "get_repo"
    /\ manager' = IF ~manager.exists
                  THEN [manager EXCEPT !.raised = "UnknownObjectException",
                                       !.status = "raised"]
                  ELSE [manager EXCEPT !.value = IF manager.has_index THEN "<html>" ELSE "",
                                       !.status = "returned"]
    /\ UNCHANGED <<pipeline, prepared, shared, wrapper, backoff, attachment, markup>>

\* get_repo or get_contents of get_file_content raises something else than
\* a 404: the function has no retry wrapper, the caller gets the exception.
get_file_content_raises(kind) ==
    /\ manager.op = "get_file_content"
    /\ manager.status = "get_repo"
    /\ manager' = [manager EXCEPT !.raised = kind, !.status = "raised"]
    /\ UNCHANGED <<pipeline, prepared, shared, wrapper, backoff, attachment, markup>>

\* enable_pages logs and returns the predicted URL; it calls nothing.
enable_pages ==
    /\ manager.op = "enable_pages"
    /\ manager.status = "called"
    /\ manager' = [manager EXCEPT !.value = pages_url_of(manager.repo_name),
                                   !.status = "returned"]
    /\ UNCHANGED <<pipeline, prepared, shared, wrapper, backoff, attachment, markup>>

InitManager ==
    /\ NoTasks
    /\ wrapper = NoWrapper
    /\ backoff = NoBackoff
    /\ attachment = NoAttachment
    /\ markup = NoMarkup
    /\ prepared = NoPrepared
    /\ shared = NoShared
    /\ \E op \in ManagerOps, name \in RepoNames, e \in BOOLEAN, i \in BOOLEAN :
           /\ i => e
           /\ manager = [NoManager EXCEPT
                            !.op = op, !.repo_name = name, !.existed = e, !.exists = e,
                            !.has_index = i,
                            !.status = IF op = "enable_pages" THEN "called" ELSE "get_repo"]
NextManager ==
    \/ get_repo_returns
    \/ get_repo_not_found
    \/ create_repo_returns
    \/ get_commits_returns
    \/ \E attaches \in BOOLEAN : add_workflow(attaches)
    \/ create_repo_branch_returns
    \/ \E k \in GithubFailures : create_or_get_raises(k)
    \/ get_file_content_ends
    \/ \E k \in GithubFailures : get_file_content_raises(k)
    \/ enable_pages
SpecManager == InitManager /\ [][NextManager]_vars

\* --------------------------------------------------- step 5: the files
\* d.update(e) and d[k] = v of a dict, as functions from names to contents.
update(d, e) == [k \in DOMAIN d \cup DOMAIN e |-> IF k \in DOMAIN e THEN e[k] ELSE d[k]]

\* A variant of step 5 that adds every attachment with content, whatever
\* its name.
prepare_files_attachments_last(index_html, additional_files, parsed_attachments) ==
    LET RECURSIVE add(_, _)
        add(files, i) ==
            IF i > Len(parsed_attachments) THEN files
            ELSE LET att == parsed_attachments[i]
                 IN add(IF att.content # ""
                        THEN update(files, (att.name :> att.content)) ELSE files, i + 1)
    IN add(update((IndexName :> index_html) @@ (ReadmeName :> "readme_md")
                      @@ (LicenseName :> "license_text"),
                  additional_files), 1)

\* Step 5: the dict of the three files of llm_response, updated with its
\* additional_files, then each parsed attachment that has content, under
\* its name if the dict has no such name yet.
prepare_files(index_html, additional_files, parsed_attachments) ==
    LET RECURSIVE add(_, _)
        add(files, i) ==
            IF i > Len(parsed_attachments) THEN files
            ELSE LET att == parsed_attachments[i]
                 IN add(IF att.name \notin DOMAIN files /\ att.content # ""
                        THEN update(files, (att.name :> att.content)) ELSE files, i + 1)
    IN add(update((IndexName :> index_html) @@ (ReadmeName :> "readme_md")
                      @@ (LicenseName :> "license_text"),
                  additional_files), 1)

prepare_files_ends ==
    /\ prepared.status = "generated"
    /\ prepared' = [prepared EXCEPT
                       !.files = prepare_files(prepared.index_html, prepared.additional_files,
                                               prepared.parsed_attachments),
                       !.status = "prepared"]
    /\ UNCHANGED <<pipeline, shared, wrapper, backoff, attachment, markup, manager>>

\* One run of step 5 for each response of a provider (a generated page or
\* the fallback page, additional files under other names than the three)
\* and each list of up to MaxAttachments parsed attachments (a name and a
\* content each, "" for an attachment that did not parse).
InitFiles ==
    /\ NoTasks
    /\ wrapper = NoWrapper
    /\ backoff = NoBackoff
    /\ attachment = NoAttachment
    /\ markup = NoMarkup
    /\ manager = NoManager
    /\ shared = NoShared
    /\ \E page \in {"<html>", "<fallback>"},
          names \in SUBSET {ExtraFile, "data.csv"},
          n \in 0..MaxAttachments :
          \E atts \in [1..n -> [name : {IndexName, ExtraFile, "data.csv"},
                                content : {"", "a,b", "c,d"}]] :
              prepared = [NoPrepared EXCEPT
                             !.index_html = page,
                             !.additional_files = [k \in names |-> "generated"],
                             !.parsed_attachments = atts,
                             !.status = "generated"]
SpecFiles == InitFiles /\ [][prepare_files_ends]_vars

\* ------------------------------------- two requests, one task identifier
\* request.task is the client's string and repo_name = request.task: the
\* tasks of two requests with the same identifier work on one repository.
\* shared.head counts the commits of its branch, shared.page_of is the task
\* whose index.html the branch holds; sent is what the last POST of a task
\* carried, with the branch as it was when the POST was made.
\*
\* Steps 4 to 8 of task t, none of which awaits: the repository is found or
\* created, commit_files writes the task's page, and the first POST of the
\* result is made.
commit_and_post(t) ==
    /\ shared.task[t].pc = "generated"
    /\ shared' = [shared EXCEPT
                     !.head = @ + 1,
                     !.page_of = t,
                     !.task[t] = [pc |-> "cb_post", attempt |-> 0,
                                  commit_sha |-> Sha(shared.head + 1),
                                  sent |-> [commit_sha |-> Sha(shared.head + 1),
                                            tip |-> Sha(shared.head + 1),
                                            page_of |-> t]]]
    /\ UNCHANGED <<pipeline, wrapper, backoff, attachment, markup, manager, prepared>>

\* The POST of task t ends: 200 ends the loop, anything else is followed by
\* a sleep unless the attempt was the last.
shared_post_ends(t, outcome) ==
    /\ shared.task[t].pc = "cb_post"
    /\ shared' = [shared EXCEPT
                     !.task[t].pc = IF outcome = "200" THEN "reported"
                                    ELSE IF callback_sleeps_after(shared.task[t].attempt)
                                    THEN "cb_sleep" ELSE "unreported"]
    /\ UNCHANGED <<pipeline, wrapper, backoff, attachment, markup, manager, prepared>>

\* asyncio.sleep ends: the next POST of the same result is made.
shared_sleep_done(t) ==
    /\ shared.task[t].pc = "cb_sleep"
    /\ shared' = [shared EXCEPT
                     !.task[t].pc = "cb_post",
                     !.task[t].attempt = @ + 1,
                     !.task[t].sent = [commit_sha |-> shared.task[t].commit_sha,
                                       tip |-> Sha(shared.head),
                                       page_of |-> shared.page_of]]
    /\ UNCHANGED <<pipeline, wrapper, backoff, attachment, markup, manager, prepared>>

\* The tasks of NumTasks accepted requests with one task identifier, each
\* with its generated files, in flight together.
InitShared ==
    /\ NoTasks
    /\ wrapper = NoWrapper
    /\ backoff = NoBackoff
    /\ attachment = NoAttachment
    /\ markup = NoMarkup
    /\ manager = NoManager
    /\ prepared = NoPrepared
    /\ shared = [NoShared EXCEPT
                    !.task = [t \in Tasks |-> [NoShared.task[t] EXCEPT !.pc = "generated"]]]
NextShared ==
    \E t \in Tasks :
        \/ commit_and_post(t)
        \/ \E o \in PostOutcomes : shared_post_ends(t, o)
        \/ shared_sleep_done(t)
SpecShared == InitShared /\ [][NextShared]_vars

\* ------------------------------------------------------------------ claims
IsPrefix(s, q) == Len(s) <= Len(q) /\ \A i \in 1..Len(s) : s[i] = q[i]
Range(s) == {s[i] : i \in 1..Len(s)}

\* C1: a task whose deadline elapsed before its pipeline completed (in an LLM
\* call, a hosting-API call or a backoff sleep of steps 1-6) makes no callback
\* POST.
C1_DeadlineAbandonsTask ==
    \A t \in Tasks : deadline[t] = "in_pipeline" => posts[t] = 0

\* C2: step 7 is inside the deadline too: once the deadline has elapsed during
\* callback delivery, the task makes no further POST and starts no further
\* backoff sleep.
C2_CallbackWithinDeadline ==
    [][\A t \in Tasks : deadline[t] = "in_callback" =>
           posts'[t] = posts[t] /\ sleeps'[t] = sleeps[t]]_vars

\* C3: the states of a task are visited in the order RECEIVED,
\* ATTACHMENTS_PARSED, (PRIOR_FETCHED), GENERATED, REPO_READY, COMMITTED,
\* PAGES_ENABLED, REPORTED; a callback POST is made only after generation,
\* create-or-get, commit and hosting-URL resolution have succeeded, and a
\* failed or timed-out task has made none.
StatePath(rnd) ==
    <<"RECEIVED", "ATTACHMENTS_PARSED">>
    \o (IF rnd > 1 THEN <<"PRIOR_FETCHED">> ELSE <<>>)
    \o <<"GENERATED", "REPO_READY", "COMMITTED", "PAGES_ENABLED", "REPORTED">>
C3_StatesInOrder ==
    \A t \in Tasks :
        /\ IsPrefix(visited[t], StatePath(request[t].round))
        /\ posts[t] > 0 =>
               {"GENERATED", "REPO_READY", "COMMITTED", "PAGES_ENABLED"}
                   \subseteq Range(visited[t])
        /\ pc[t] \in {"failed", "timed_out"} => posts[t] = 0
        /\ pc[t] = "reported" <=> "REPORTED" \in Range(visited[t])
C3_Reported ==
    \E t \in Tasks :
        /\ pc[t] = "reported"
        /\ visited[t] = StatePath(request[t].round)
        /\ request[t].round > 1

\* C4: a request whose secret differs from the configured one is answered 401
\* and schedules nothing; a request with exactly the configured secret is
\* answered 200 and schedules the orchestrator once.
C4_SecretDecidesResponse ==
    \A t \in Tasks :
        request[t] # NoRequest =>
            IF request[t].secret = service_secret
            THEN resp[t] = 200 /\ background[t] = 1
            ELSE resp[t] = 401 /\ background[t] = 0

\* C5: no pipeline step of a task has run before its request was answered
\* 200: the handler only enqueues the orchestrator.
C5_AckBeforePipeline ==
    \A t \in Tasks :
        (\/ visited[t] # <<>>
         \/ calls[t] # <<>>
         \/ gh_calls[t] # <<>>
         \/ posts[t] > 0
         \/ pc[t] \notin {"idle", "rejected", "queued"})
        => resp[t] = 200 /\ background[t] = 1
C5_AckedAndQueued ==
    \E t \in Tasks :
        /\ pc[t] = "queued" /\ resp[t] = 200 /\ background[t] = 1
        /\ visited[t] = <<>> /\ calls[t] = <<>> /\ gh_calls[t] = <<>> /\ posts[t] = 0

\* C6: the secondary provider is invoked only after the primary raised a
\* GenerationError, then exactly once and with the same request; a primary
\* failure leads nowhere but to that invocation (or to the timeout); when the
\* secondary fails too the task fails without create-or-get, commit, pages or
\* callback.
RepositoryWrites == {"create_or_get_repository", "commit_files", "enable_pages"}
AllLocal(r) ==
    /\ r.index_html.src = "local"
    /\ r.readme_md.src = "local"
    /\ r.license_text.src = "local"
    /\ r.additional_files = EmptyFiles

\* C7: the primary provider's generate never raises; when every model it
\* tried failed, the response is built from local synthesis alone and tagged
\* "fallback", and only then.
C7_PrimaryNeverRaises ==
    \A t \in Tasks : \A i \in 1..Len(calls[t]) :
        LET c == calls[t][i]
        IN c.provider = "AIPipe" =>
            /\ c.outcome # "raised"
            /\ pc[t] # "llm_raised"
            /\ c.failed <= 3
            /\ (c.outcome = "returned" /\ c.failed = 3) =>
                   /\ AllLocal(llm_response[t])
                   /\ llm_response[t].model_used = "fallback"
                   /\ remote_text[t] = <<>>
            /\ (c.outcome = "returned" /\ c.failed < 3) =>
                   /\ llm_response[t].model_used = models_to_try[c.failed + 1]
                   /\ llm_response[t].model_used # "fallback"
                   /\ remote_text[t] # <<>>
C7_FallbackReturned ==
    \E t \in Tasks :
        /\ calls[t] # <<>>
        /\ calls[t][1].provider = "AIPipe"
        /\ calls[t][1].outcome = "returned"
        /\ calls[t][1].failed = 3
        /\ llm_response[t].model_used = "fallback"

\* C8, as stated: no provider's generate raises when its remote call fails.
C8_EveryProviderFallsBack ==
    \A t \in Tasks : \A i \in 1..Len(calls[t]) : calls[t][i].outcome # "raised"

\* C8, amended: the primary provider returns a locally synthesized response
\* when its remote calls fail entirely; the secondary provider raises a
\* GenerationError on a failed remote call and returns a response only from a
\* remote text.
C8_SecondaryRaises ==
    \A t \in Tasks : \A i \in 1..Len(calls[t]) :
        LET c == calls[t][i]
        IN /\ c.provider = "AIPipe" =>
                  /\ c.outcome # "raised"
                  /\ (c.outcome = "returned" /\ remote_text[t] = <<>>) =>
                         AllLocal(llm_response[t])
           /\ c.provider = "HuggingFace" =>
                  /\ c.failed > 0 =>
                         /\ c.outcome = "raised"
                         /\ llm[t].error = "LLMGenerationError"
                         /\ llm_response[t] = NoResponse
                  /\ c.outcome = "returned" =>
                         /\ c.failed = 0
                         /\ remote_text[t] # <<>>
                         /\ llm_response[t].model_used = hf_inference_model
C8_SecondaryRaised ==
    \E t \in Tasks :
        /\ calls[t] # <<>>
        /\ calls[t][Len(calls[t])].provider = "HuggingFace"
        /\ calls[t][Len(calls[t])].outcome = "raised"
        /\ pc[t] = "llm_raised"

\* C9: every response a provider returns carries the index page, the readme
\* and the license; each is the remote text's block of that name when the
\* text has one, and locally synthesized content when it has none.
BlockNames(text) == DOMAIN ParseFrom(text, 1, EmptyFiles, FALSE)
Carried(f, name, text) ==
    /\ f.src \in {"remote", "local"}
    /\ f.src = "remote" <=> name \in BlockNames(text)
C11_StopsAtFirst200 ==
    [][\A t \in Tasks :
           /\ pc[t] = "reported" =>
                  pc'[t] = "reported" /\ posts'[t] = posts[t] /\ sleeps'[t] = sleeps[t]
           /\ (pc[t] = "cb_post" /\ pc'[t] = "reported") =>
                  /\ posts'[t] = posts[t]
                  /\ sleeps'[t] = sleeps[t]
                  /\ Len(sleeps[t]) = posts[t] - 1
                  /\ posts[t] = 3 => sleeps[t] = <<1, 2>>]_vars
C11_ReportedOnThird ==
    \E t \in Tasks : pc[t] = "reported" /\ posts[t] = 3 /\ sleeps[t] = <<1, 2>>

\* C12: process_task raises nothing to its scheduler: a task is always at a
\* point of its code or in one of the logged terminal states, which it never
\* leaves; after the last failed callback attempt it is complete but
\* unreported.
Stages ==
    {"idle", "rejected", "queued"} \cup SyncStages \cup AwaitStages
        \cup CallbackStages \cup Terminal
C12_NothingPropagates ==
    [][\A t \in Tasks :
           /\ pc'[t] \in Stages
           /\ pc[t] \in Terminal => pc'[t] = pc[t]
           /\ (pc[t] = "cb_post" /\ posts[t] = max_retries /\ pc'[t] # pc[t]) =>
                  pc'[t] \in {"reported", "unreported"}
           /\ pc'[t] = "unreported" =>
                  /\ posts'[t] = max_retries
                  /\ "PAGES_ENABLED" \in Range(visited'[t])
                  /\ "REPORTED" \notin Range(visited'[t])
           /\ pc'[t] = "timed_out" => Elapsed(t)
           /\ pc'[t] = "failed" => posts'[t] = 0]_vars
C12_StepFailed ==
    \E t \in Tasks :
        /\ pc[t] = "failed"
        /\ gh_calls[t] # <<>>
        /\ gh_calls[t][Len(gh_calls[t])] = "GithubException"
        /\ \E u \in Tasks \ {t} : pc[u] = "timed_out"

\* C13: what commit_files returns is the hash of the last commit the call
\* made, and the empty string only when the call made no commit.
C13_ReturnsLastCommit ==
    \A t \in Tasks :
        pc[t] = "enable_pages" =>
            /\ result[t].commit_sha = EmptySha <=> written[t] = {}
            /\ written[t] # {} => result[t].commit_sha = Sha(head[t])

\* C14: a second commit_files call with the same files, nothing else having
\* changed the branch, writes nothing and returns the empty string.
C14_SecondCallIdle ==
    \A t \in Tasks :
        CommitCalls(t) >= 2 =>
            /\ written[t] = {}
            /\ last_commit_sha[t] = EmptySha
            /\ tree[t] = UnchangedTree
            /\ pc[t] = "enable_pages" => result[t].commit_sha = EmptySha
C14_SecondCallReturned ==
    \E t \in Tasks :
        /\ CommitCalls(t) = 2
        /\ pc[t] = "enable_pages"
        /\ head[t] = 3
        /\ result[t].commit_sha = EmptySha

\* C15: a task aborted because a repository-manager operation exhausted its
\* retries has written none of its files to the repository.
C15_NoPartialCommit ==
    \A t \in Tasks :
        (/\ pc[t] = "failed"
         /\ gh_calls[t] # <<>>
         /\ gh_calls[t][Len(gh_calls[t])] = "GithubException")
        => written[t] = {}

\* C16: the result a task posts carries the email, task identifier, round
\* and nonce of its own request and the repo URL, commit hash and pages URL
\* of its own repository steps, whatever other tasks are in flight.
C16_OwnResult ==
    \A t \in Tasks :
        posts[t] > 0 =>
            /\ result[t] = [email |-> request[t].email,
                            task |-> request[t].task,
                            round |-> request[t].round,
                            nonce |-> request[t].nonce,
                            repo_url |-> html_url(request[t].task),
                            commit_sha |-> last_commit_sha[t],
                            pages_url |-> pages_url_of(request[t].task)]
            /\ \A u \in Tasks \ {t} :
                   posts[u] > 0 => /\ result[u].nonce # result[t].nonce
                                   /\ result[u].repo_url # result[t].repo_url
C16_TwoInFlight ==
    \E t \in Tasks : \E u \in Tasks \ {t} :
        /\ pc[t] \in CallbackStages /\ pc[u] \in CallbackStages
        /\ request[t].round # request[u].round
        /\ result[t].commit_sha # result[u].commit_sha

\* C17: the commit_sha a task posts is the hash of the latest commit of its
\* branch when its commit step finished, and never the empty string.
C17_PostsLatestCommit ==
    \A t \in Tasks :
        posts[t] > 0 => result[t].commit_sha = Sha(head[t])

\* C18: with max_attempts >= 1 and failures of a retryable kind only, the
\* wrapper calls the operation until its first success and at most
\* max_attempts times, sleeps once after each failed attempt but the last,
\* never after a success, and raises the last attempt's exception itself.
RetryableOnly(w) == \A i \in 1..Len(w.failures) : w.failures[i] \in WrapperExceptions
C18_RetryUntilSuccess ==
    (wrapper.status # "none" /\ RetryableOnly(wrapper)) =>
        /\ wrapper.max_attempts >= 1
        /\ wrapper.invocations = wrapper.attempt + 1
        /\ wrapper.invocations <= wrapper.max_attempts
        /\ wrapper.status = "calling" =>
               /\ Len(wrapper.failures) = wrapper.invocations - 1
               /\ wrapper.sleeps = wrapper.invocations - 1
        /\ wrapper.status = "sleeping" =>
               /\ Len(wrapper.failures) = wrapper.invocations
               /\ wrapper.sleeps = wrapper.invocations
               /\ wrapper.invocations < wrapper.max_attempts
        /\ wrapper.status = "returned" =>
               /\ Len(wrapper.failures) = wrapper.invocations - 1
               /\ wrapper.sleeps = wrapper.invocations - 1
        /\ wrapper.status = "raised" =>
               /\ wrapper.invocations = wrapper.max_attempts
               /\ Len(wrapper.failures) = wrapper.max_attempts
               /\ wrapper.sleeps = wrapper.max_attempts - 1
               /\ wrapper.raised = wrapper.failures[Len(wrapper.failures)]
C18_Exhausted ==
    /\ wrapper.status = "raised"
    /\ wrapper.max_attempts = 3
    /\ wrapper.sync
    /\ wrapper.failures = <<"GithubException", "GithubException", "GithubException">>

\* C19: a failure of a kind outside the retryable set is raised to the caller
\* in the attempt where it occurs: no sleep follows it, the operation is not
\* called again, however many attempts are left.
C19_NonRetryableAtOnce ==
    \A i \in 1..Len(wrapper.failures) :
        wrapper.failures[i] \notin WrapperExceptions =>
            /\ i = Len(wrapper.failures)
            /\ wrapper.status = "raised"
            /\ wrapper.raised = wrapper.failures[i]
            /\ wrapper.invocations = i
            /\ wrapper.sleeps = i - 1
C19_RaisedEarly ==
    /\ wrapper.status = "raised"
    /\ wrapper.max_attempts = 3
    /\ wrapper.failures = <<"HTTPError", "ValueError">>
    /\ ~wrapper.sync

\* C20: the delay exponential_backoff returns lies in [0, max_delay], with
\* and without jitter (delay4 is the delay in quarters of a second).
C20_DelayWithinCap ==
    backoff.status = "returned" =>
        /\ backoff.delay4 >= 0
        /\ backoff.delay4 <= 4 * backoff.max_delay

\* C21: with jitter off, exponential_backoff returns exactly
\* min(base * factor ** attempt, max_delay) for every attempt >= 0: the delay
\* never decreases from one attempt to the next and is max_delay once
\* base * factor ** attempt has reached it.
C21_ExactWithoutJitter ==
    (~backoff.jitter /\ backoff.status # "called" /\ backoff.status # "none") =>
        /\ backoff.status = "returned"
        /\ backoff.delay4 =
               4 * Min(backoff.base * backoff.factor ^ backoff.attempt, backoff.max_delay)
        /\ \A a \in 0..backoff.attempt :
               exponential_backoff(a, backoff.base, backoff.factor,
                                   backoff.max_delay, FALSE, 0) <= backoff.delay4
        /\ (backoff.base * backoff.factor ^ backoff.attempt >= backoff.max_delay
               => backoff.delay4 = 4 * backoff.max_delay)

\* C22: a hosting-API call and a retry backoff sleep are suspension points:
\* while one task is inside one, the event loop accepts a new request and
\* starts a queued task.
C22_SuspensionPoints ==
    \A t \in Tasks : \A u \in Tasks \ {t} :
        pc[t] \in SyncStages \cup {"aipipe_sleep", "cb_sleep"} =>
            /\ pc[u] = "idle" => ENABLED api_endpoint(u, service_secret, 1)
            /\ pc[u] = "queued" => ENABLED process_task(u)

\* C23: the response of the catch-all handler has status 500 and a generic
\* body: nothing in it is derived from the failure.
C23_GenericBody ==
    \A t \in Tasks :
        resp[t] = 500 => body[t] = [detail |-> "Internal server error"]

\* C24: under fair scheduling, with every external call returning or failing,
\* every accepted task eventually reaches a terminal state: reported, callback
\* undelivered, failed or timed out.
C24_EventuallyTerminal ==
    \A t \in Tasks : (pc[t] = "queued") ~> (pc[t] \in Terminal)
\* Both tasks were accepted and have ended, one after the last callback
\* attempt failed and one after a failed step.
C24_BothEnded ==
    \E t \in Tasks : \E u \in Tasks \ {t} :
        /\ resp[t] = 200 /\ pc[t] = "unreported" /\ cb_attempt[t] = max_retries - 1
        /\ resp[u] = 200 /\ pc[u] = "failed"

\* The data URIs the claim calls malformed: no string, empty, no "data:"
\* prefix, no comma, or a base64 payload with a character outside the
\* alphabet or with an open group.
NonAlphabet == {"data:", ";base64", ",", "!", "%41"}
Malformed(u) ==
    \/ u.type # "str"
    \/ u.text = <<>>
    \/ u.text[1] # "data:"
    \/ FirstComma(u.text) = 0
    \/ LET comma == FirstComma(u.text)
           encoded == SubSeq(u.text, comma + 1, Len(u.text))
       IN /\ \E i \in 1..(comma - 1) : u.text[i] = ";base64"
          /\ \/ \E i \in 1..Len(encoded) : encoded[i] \in NonAlphabet
             \/ b64decode(encoded).raised # "none"
\* C25: _parse_data_uri raises for no input, and every malformed data URI
\* decodes to the empty string.
C25_MalformedDecodesEmpty ==
    attachment.status \notin {"none", "called"} =>
        /\ attachment.status = "returned"
        /\ Malformed(attachment.url) => attachment.content = <<>>

\* The kind the rules give an identifier: a button for "button" or "submit",
\* a dropdown for "select" or "picker", a number field for "input" or "num",
\* an output region otherwise.
KindByRule(id) ==
    IF AnyIn({"button", "submit"}, id) THEN [tag |-> "button", type |-> "none"]
    ELSE IF AnyIn({"select", "picker"}, id) THEN [tag |-> "select", type |-> "none"]
    ELSE IF AnyIn({"input", "num"}, id) THEN [tag |-> "input", type |-> "number"]
    ELSE [tag |-> "div", type |-> "none"]
\* C26: the fallback markup holds, for each #id of the checks, an element with
\* that id whose kind follows the rules; the id count-btn is a button.
C26_ElementKinds ==
    markup.status = "returned" =>
        \A c \in 1..Len(markup.checks) :
            LET ids == findall(markup.checks[c], 1)
            IN \A i \in 1..Len(ids) :
                   \E e \in DOMAIN markup.elements :
                       /\ e.id = ids[i]
                       /\ e.tag = KindByRule(ids[i]).tag
                       /\ e.type = KindByRule(ids[i]).type
                       /\ ids[i] = <<"count", "-", "btn">> => e.tag = "button"

\* A valid repository name: not empty, within the maximum length, made of
\* letters, digits and hyphens, with no hyphen at either end.
NameChars == {"t", "-"} \cup {ToString(n) : n \in 0..9}
ValidRepoName(name) ==
    /\ Len(name) >= 1
    /\ Len(name) <= max_repo_name_length
    /\ \A i \in 1..Len(name) : name[i] \in NameChars
    /\ name[1] # "-"
    /\ name[Len(name)] # "-"
\* C27: every task that reaches the orchestrator has a round in {1, 2, 3},
\* and the name handed to create_or_get_repository is a valid repository name.
C27_ValidRoundAndName ==
    \A t \in Tasks :
        pc[t] \notin {"idle", "rejected"} =>
            /\ request[t].round \in {1, 2, 3}
            /\ pc[t] = "create_or_get" => ValidRepoName(repo_name(t))

\* C28: in the deployed service the primary provider never raises a
\* GenerationError to the orchestrator: the secondary provider is never
\* invoked and "both providers failed" never happens.
C28_SecondaryUnreachable ==
    \A t \in Tasks :
        /\ pc[t] # "llm_raised"
        /\ llm[t].provider # "HuggingFace"
        /\ \A i \in 1..Len(calls[t]) :
               calls[t][i].provider = "AIPipe" /\ calls[t][i].outcome # "raised"
        /\ ~ENABLED invoke_fallback(t)
        /\ ~ENABLED both_providers_failed(t)
\* Every model of the primary provider failed, and step 3 ended with its
\* response.
C28_AllModelsFailed ==
    \E t \in Tasks :
        /\ pc[t] = "aclose"
        /\ Len(calls[t]) = 1
        /\ calls[t][1].failed = AIPipeMaxModels
        /\ calls[t][1].outcome = "returned"
        /\ llm[t].provider # "HuggingFace"

\* The steps of one generate_application call of the primary provider, for
\* task t: the models are tried in the order of models_to_try from the first
\* on; a sleep, then a second call of the same model, follows a first call
\* that failed with an HTTP error or a timeout, and only that; any other
\* failure, and the failure of the second call, leads to the next model; a
\* call that returns a text ends generate_application with that model's
\* response.
C29_Step(t) ==
    /\ (pc[t] \notin {"aipipe_post", "aipipe_sleep"} /\ pc'[t] = "aipipe_post") =>
           llm'[t].model = 1 /\ llm'[t].attempt = 0
    /\ (pc[t] = "aipipe_post" /\ pc'[t] = "aipipe_sleep") =>
           /\ llm[t].attempt = 0
           /\ llm'[t] = llm[t]
           /\ \E k \in AIPipeRetryable : aipipe_post_fails(t, k)
    /\ (pc[t] = "aipipe_sleep" /\ pc'[t] = "aipipe_post") =>
           llm'[t].model = llm[t].model /\ llm'[t].attempt = llm[t].attempt + 1
    /\ (pc[t] = "aipipe_post" /\ pc'[t] = "aipipe_post") =>
           llm'[t].model = llm[t].model + 1 /\ llm'[t].attempt = 0
    /\ \A k \in AIPipeFailures \ AIPipeRetryable :
           aipipe_post_fails(t, k) => pc'[t] # "aipipe_sleep"
    /\ \A c \in Texts(MaxLines) :
           aipipe_post_returns(t, c) =>
               /\ pc'[t] = "aclose"
               /\ llm_response'[t].model_used = models_to_try[llm[t].model]
    /\ pc'[t] \in {"aipipe_post", "aipipe_sleep"} =>
           /\ llm'[t].model \in 1..Len(models_to_try)
           /\ llm'[t].attempt \in 0..1
\* C29: one generate call of the primary provider tries at most 3 distinct
\* models, the configured one first and the others in preference order, with
\* at most 2 remote calls for a model (6 in all), and returns at the first
\* success.
C29_ModelsAndAttempts ==
    [][/\ Len(models_to_try) <= 3
       /\ models_to_try[1] = aipipe_model
       /\ \A i \in 1..Len(models_to_try) : \A j \in 1..Len(models_to_try) :
              i # j => models_to_try[i] # models_to_try[j]
       /\ IsPrefix(Tail(models_to_try),
                   SelectSeq(AVAILABLE_MODELS, LAMBDA m : m # aipipe_model))
       /\ \A t \in Tasks : C29_Step(t)]_vars
\* The sixth remote call: the second one to the third model.
C29_SixthCall ==
    \E t \in Tasks :
        pc[t] = "aipipe_post" /\ llm[t].model = 3 /\ llm[t].attempt = 1

\* C30: in the HuggingFace provider a transient network or HTTP failure is
\* retried with backoff: a first call that fails so does not raise, the
\* endpoint is called a second time before the provider raises.
C30_HttpFailureRetried ==
    [][\A t \in Tasks :
          (hf_post_fails(t, "HTTPError") /\ llm[t].attempt = 0) =>
              /\ pc'[t] # "llm_raised"
              /\ llm'[t].attempt = 1]_vars

\* The remote writes the current commit_files call has made to path f.
WritesTo(t, f) == SelectSeq(writes[t].ops, LAMBDA op : op[2] = f)

\* C31: after commit_files has returned, every file of the file set holds the
\* given content on the branch and no other path was written; the call made
\* no write for a file whose content was identical, one update_file for a
\* file that differed and one create_file for a file that was absent.
C31_CommitFrame ==
    \A t \in Tasks :
        pc[t] = "enable_pages" =>
            /\ \A f \in MandatoryFiles : tree[t][f] = "same"
            /\ \A i \in 1..Len(writes[t].ops) : writes[t].ops[i][2] \in MandatoryFiles
            /\ \A f \in MandatoryFiles :
                  WritesTo(t, f) = CASE writes[t].before[f] = "same" -> <<>>
                                     [] writes[t].before[f] = "differs" -> <<<<"update_file", f>>>>
                                     [] writes[t].before[f] = "absent" -> <<<<"create_file", f>>>>
\* A call that skipped a file, updated another and created a third has
\* returned.
C31_SkippedUpdatedCreated ==
    \E t \in Tasks :
        /\ pc[t] = "enable_pages"
        /\ \E f, g, h \in MandatoryFiles :
              /\ writes[t].before[f] = "same"
              /\ writes[t].before[g] = "differs"
              /\ writes[t].before[h] = "absent"
              /\ WritesTo(t, g) # <<>>
              /\ WritesTo(t, h) # <<>>


\* C32: create_or_get_repository asks for the creation of a repository only
\* after the lookup of the name answered not found, and the created flag of
\* the info it returns is true exactly when this call created the repository
\* and false exactly when the repository existed before the call, also after
\* a retry that follows a failure behind the creation request.
C32_CreatedFlag ==
    manager.op = "create_or_get_repository" =>
        /\ manager.status = "create_repo" => manager.not_found /\ ~manager.exists
        /\ manager.status = "returned" =>
              /\ manager.info.created <=> manager.created_here
              /\ ~manager.info.created <=> manager.existed

\* C33: for a repository create_or_get_repository has created, attaching
\* each of the two workflow files has been attempted when the call returns,
\* and whether they were attached or not the call returns the info of the
\* created repository.
C33_WorkflowsAttempted ==
    (manager.status = "returned" /\ manager.created_here) =>
        /\ manager.attempted = Range(WorkflowOrder)
        /\ manager.info = GitHubRepoInfo(manager.repo_name, TRUE)


\* C34: a transient hosting-API failure inside an operation of the
\* repository manager reaches the caller only after the operation has been
\* tried again at least once.
C34_RetriedBeforeSurfacing ==
    (manager.status = "raised" /\ manager.raised \in GithubRetryable) =>
        manager.attempt >= 1


\* C35: the step that fetches the previous round's markup always ends in
\* the invocation of the primary provider, whatever failed in it: no failure
\* of the fetch, the set-up of the hosting client included, fails the task.
C35_FetchNeverAborts ==
    [][\A t \in Tasks :
           (pc[t] = "prior_fetch" /\ pc'[t] # "prior_fetch") =>
               /\ pc'[t] = "aipipe_post"
               /\ existing_code'[t] \in {fetched_code(o) : o \in FetchOutcomes}]_vars


\* C36: a provider is given prior code other than None only in a task of
\* round > 1 that has fetched it; the fetch that finds the index page is
\* followed at once by the first invocation of a provider, with the fetched
\* page (not empty) as prior code, and every later invocation of the task is
\* given the same.
C36_PriorCodeFetchedFirst ==
    [][\A t \in Tasks :
           /\ \A i \in 1..Len(calls'[t]) :
                 /\ calls'[t][i].existing_code = existing_code'[t]
                 /\ calls'[t][i].existing_code # "None" =>
                        /\ calls'[t][i].round > 1
                        /\ "get_file_content" \in Range(gh_calls'[t])
           /\ fetch_existing_code(t, "content") =>
                 /\ calls[t] = <<>>
                 /\ Len(calls'[t]) = 1
                 /\ calls'[t][1].existing_code = "<html>"]_vars
\* Both providers of a round-2 task have been given the fetched page.
C36_BothGivenThePage ==
    \E t \in Tasks :
        /\ request[t].round > 1
        /\ Len(calls[t]) = 2
        /\ \A i \in 1..2 : calls[t][i].existing_code = "<html>"


\* C37: the files of step 5 hold index.html, README.md and LICENSE with the
\* content of the generation response and every additional generated file;
\* every other file is an attachment that has content, under a name
\* generation did not produce: no attachment replaces a generated file.
C37_GeneratedFilesKept ==
    prepared.status = "prepared" =>
        LET files == prepared.files
            generated == MandatoryFiles \cup DOMAIN prepared.additional_files
        IN /\ generated \subseteq DOMAIN files
           /\ files[IndexName] = prepared.index_html
           /\ files[ReadmeName] = "readme_md"
           /\ files[LicenseName] = "license_text"
           /\ \A k \in DOMAIN prepared.additional_files :
                  files[k] = prepared.additional_files[k]
           /\ \A k \in DOMAIN files \ generated :
                  \E i \in 1..Len(prepared.parsed_attachments) :
                      /\ prepared.parsed_attachments[i].name = k
                      /\ prepared.parsed_attachments[i].content = files[k]
                      /\ files[k] # ""
\* Step 5 has run with an attachment named as a generated file and another
\* that was added.
C37_AttachmentNamedAsGenerated ==
    /\ prepared.status = "prepared"
    /\ \E i, j \in 1..Len(prepared.parsed_attachments) :
          /\ prepared.parsed_attachments[i].name = IndexName
          /\ prepared.parsed_attachments[i].content # ""
          /\ prepared.parsed_attachments[j].name \notin
                 MandatoryFiles \cup DOMAIN prepared.additional_files
          /\ prepared.parsed_attachments[j].name \in DOMAIN prepared.files


\* C39: the step of enable_pages leaves the repository as it was (files,
\* commits) and gives the URL made of the account and the name of the task's
\* repository, which is the pages_url of the info create_or_get_repository
\* returns for that name, created or found; every callback of the task
\* reports that URL.
C39_PagesUrl ==
    [][\A t \in Tasks :
           /\ enable_pages_returns(t) =>
                 /\ UNCHANGED <<tree, head, writes>>
                 /\ result'[t].pages_url = pages_url_of(repo_name(t))
                 /\ \A created \in BOOLEAN :
                        result'[t].pages_url = GitHubRepoInfo(repo_name(t), created).pages_url
           /\ posts'[t] > 0 => result'[t].pages_url = pages_url_of(request'[t].task)]_vars
\* Two tasks have reported, each the pages URL of its own repository, after
\* commits to it.
C39_BothReported ==
    \E t \in Tasks : \E u \in Tasks \ {t} :
        /\ pc[t] = "reported" /\ pc[u] = "reported"
        /\ head[t] > 0
        /\ result[t].pages_url # result[u].pages_url


\* C38: every POST of a task's callback is made while the branch of the
\* repository it reports still ends in the task's own commit and holds the
\* task's own page, also when another task in flight has the same task
\* identifier.
C38_OwnCommitAtCallback ==
    \A t \in Tasks :
        shared.task[t].sent # NoSent =>
            /\ shared.task[t].sent.commit_sha = shared.task[t].commit_sha
            /\ shared.task[t].sent.tip = shared.task[t].commit_sha
            /\ shared.task[t].sent.page_of = t

====
